---- MODULE Spec2Model ----
(***************************************************************************)
(* Client-side session lifecycle of the group-ride frontend:               *)
(*   - AuthProvider (contexts/AuthContext): user, isLoading, signIn,       *)
(*     signOut, refreshAuth and the initializeAuth effect;                 *)
(*   - ApiService (services/api): getAuthHeaders, handleResponse and the   *)
(*     endpoints the controller calls;                                     *)
(*   - AppContent (App.tsx): the flow flags, the checkProfile effect, the  *)
(*     screen selection and the handlers reachable from the screens;      *)
(*   - LoginForm.handleSubmit and SignUpForm.handleSubmit with its timer;  *)
(*   - ConfirmEmailForm.handleSubmit with its timer;                       *)
(*   - OnboardingForm.handleSubmit with its two sequential calls.          *)
(* Every await is a point where other callbacks may run, so each handler   *)
(* is split at its awaits: one action per synchronous continuation.  The   *)
(* backend is the environment: each response is chosen from Outcomes.      *)
(***************************************************************************)
EXTENDS Integers, Sequences, FiniteSets, TLC

\* ---------------------------------------------------------------- bounds
MaxSignIns == 2      \* sign-in submissions explored per process lifetime
MaxSignUps == 1      \* sign-up requests explored per process lifetime
MaxConfirms == 1     \* confirmations in flight or waiting for their timer

\* ------------------------------------------------------------ value sets
NULL == "null"                       \* localStorage.getItem miss / user === null
AccessTokens == {"acc0", "accA", "accB"}    \* acc0: left by an earlier run
RefreshTokens == {"ref0", "refA", "refB"}
Tokens == AccessTokens \cup RefreshTokens
Users == {"alice", "bob"}            \* UserInfo values /auth/me may return
Keys == {"access_token", "refresh_token"}
Emails == {"a@b.com", "c@d.com"}     \* what the sign-up email field may hold

NoDetail == ""                       \* error body without a detail field
NoMessage == [text |-> "", status |-> 0]
NoInput == [password |-> "", confirmPassword |-> ""]
\* What the two password fields of SignUpForm may hold (2, 7, 8, 9 characters).
Passwords == {"pw", "short77", "Passw0rd", "Passw0rd!"}
NoResp == [access_token |-> NULL, refresh_token |-> NULL]
NoStore == [k \in Keys |-> NULL]
\* An error that reaches a catch which does not look at it.
Discarded == [text |-> "(discarded)", status |-> 0]
\* The Credential Pairs the backend issues in this run.
AuthResponses ==
  {[access_token |-> "accA", refresh_token |-> "refA"],
   [access_token |-> "accB", refresh_token |-> "refB"]}
\* What an earlier run may have left in the Session Store.
InitialStores ==
  {[k \in Keys |-> IF k = "access_token" THEN a ELSE b] :
     a \in {NULL, "acc0"}, b \in {NULL, "ref0"}}

\* What a fetch can produce: an HTTP response (status, optional detail) or a
\* transport failure (fetch itself rejects).
\* parses: response.json() resolves; detail: the detail field of the parsed
\* body, NoDetail when the field is absent or empty.
HttpOk == [transport |-> TRUE, status |-> 200, parses |-> TRUE, detail |-> NoDetail]
Http401 == [transport |-> TRUE, status |-> 401, parses |-> TRUE,
            detail |-> "Invalid or expired token"]
Http500 == [transport |-> TRUE, status |-> 500, parses |-> TRUE, detail |-> NoDetail]
NetDown == [transport |-> FALSE, status |-> 0, parses |-> FALSE, detail |-> NoDetail]
Failures == {Http401, Http500, NetDown}
Outcomes == {HttpOk} \cup Failures

\* No response under study, and no result yet.
NoResponse == [transport |-> TRUE, status |-> 0, parses |-> FALSE, detail |-> NoDetail]
NotHandled == [ok |-> FALSE, message |-> NoMessage, data |-> NoDetail]

\* ------------------------------------------------------------- variables
VARIABLES
  localStorage,   \* Session Store: key -> token or NULL
  user,           \* AuthProvider.user
  isLoading,      \* AuthProvider.isLoading
  initPc,         \* position of initializeAuth
  refreshOp,      \* the refreshAuth call made by initializeAuth
  signInOps,      \* the signIn calls, in order of submission
  signIns,        \* number of sign-in submissions so far
  loginForm,      \* local state of the mounted LoginForm
  signUpOps,      \* the signUp calls, in order of submission
  signUps,        \* number of sign-up requests so far
  signUpForm,     \* local state of the mounted SignUpForm
  timers,         \* pending setTimeout callbacks of SignUpForm (their email)
  flow,           \* AppContent flags
  probes,         \* checkProfile fetches in flight
  confirmOps,     \* the confirmSignUp calls in flight
  confirmForm,    \* local state of the mounted ConfirmEmailForm
  confirmTimers,  \* pending setTimeout callbacks of ConfirmEmailForm
  onboardOp,      \* the handleSubmit of OnboardingForm in flight
  onboardForm,    \* local state of the mounted OnboardingForm
  screen,         \* what the last render of AppContent returned
  response,       \* an HTTP response handed to handleResponse on its own
  handled,        \* what handleResponse made of it
  locationLat,    \* OnboardingForm: captured latitude, or Null
  locationLng,    \* OnboardingForm: captured longitude, or Null
  profileData,    \* OnboardingForm: the location fields it submits
  userProfile,    \* MapView: what its getUserProfile is answered with
  geolocation,    \* MapView: what the browser does with getCurrentPosition
  mapPc,          \* MapView: position of getUserLocation
  userLocation,   \* MapView.userLocation
  isLoadingLocation, \* MapView.isLoadingLocation
  last            \* the step just taken: what it was, what it sent, how it ended

vars == <<localStorage, user, isLoading, initPc, refreshOp, signInOps, signIns,
          loginForm, signUpOps, signUps, signUpForm, timers, flow, probes,
          confirmOps, confirmForm, confirmTimers, onboardOp, onboardForm, screen,
          response, handled, locationLat, locationLng, profileData, userProfile,
          geolocation, mapPc, userLocation, isLoadingLocation, last>>

\* The variables of the two location components, and all the others.
locationVars == <<locationLat, locationLng, profileData, userProfile, geolocation,
                  mapPc, userLocation, isLoadingLocation>>
authVars == <<localStorage, user, isLoading, initPc, refreshOp, signInOps, signIns,
              loginForm, signUpOps, signUps, signUpForm, timers, flow, probes,
              confirmOps, confirmForm, confirmTimers, onboardOp, onboardForm, screen,
              response, handled, last>>

\* ------------------------------------------------------------ ApiService
\* A getAuthHeaders that falls back on a token it remembered.
getAuthHeaders_remembers(ls) ==
  IF ls["access_token"] = NULL THEN "accA" ELSE ls["access_token"]

\* getAuthHeaders: the bearer attached to a request, NULL when no header.
getAuthHeaders(ls) == ls["access_token"]

\* What response.json() rejects with when the body is not JSON.
SyntaxError == [text |-> "SyntaxError", status |-> 0]

\* A handleResponse that reads the error body without the catch of line 69.
handleResponse_noCatch(r) ==
  IF r.status \in 200..299
    THEN IF r.parses THEN [ok |-> TRUE, message |-> NoMessage, data |-> r.detail]
         ELSE [ok |-> FALSE, message |-> SyntaxError, data |-> NoDetail]
  ELSE IF ~r.parses THEN [ok |-> FALSE, message |-> SyntaxError, data |-> NoDetail]
  ELSE [ok |-> FALSE,
        message |-> IF r.detail # NoDetail
                      THEN [text |-> r.detail, status |-> 0]
                      ELSE [text |-> "HTTP error! status: ", status |-> r.status],
        data |-> NoDetail]

\* handleResponse (lines 67-73): ok with the parsed body (data: its detail
\* field stands for its content), or the Error message thrown.  An error body
\* that is not JSON is read as {} by the catch of line 69.
handleResponse(r) ==
  IF r.status \in 200..299
    THEN IF r.parses THEN [ok |-> TRUE, message |-> NoMessage, data |-> r.detail]
         ELSE [ok |-> FALSE, message |-> SyntaxError, data |-> NoDetail]
    ELSE LET errorData == IF r.parses THEN r.detail ELSE NoDetail IN
         [ok |-> FALSE,
          message |-> IF errorData # NoDetail
                        THEN [text |-> errorData, status |-> 0]
                        ELSE [text |-> "HTTP error! status: ", status |-> r.status],
          data |-> NoDetail]

\* An endpoint method: await fetch(...) then handleResponse(response).
ApiCall(r) ==
  IF r.transport THEN handleResponse(r)
  ELSE [ok |-> FALSE, message |-> [text |-> "Failed to fetch", status |-> 0],
        data |-> NoDetail]

\* The endpoints whose method builds its headers with getAuthHeaders, and
\* those whose method sends the content type only.
AuthedEndpoints ==
  {"/auth/me", "/users/profile/auto-create", "/users/profile",
   "/users/preferences", "/users/onboarding"}
PlainEndpoints == {"/auth/signup", "/auth/confirm-signup", "/auth/signin", "/auth/refresh"}

\* An unauthenticated endpoint that attaches the stored token all the same.
Plain_sendsBearer(ep) == [ep |-> ep, bearer |-> localStorage["access_token"]]

\* A request as it leaves the client.
Plain(ep) == [ep |-> ep, bearer |-> NULL]
Authed(ep, ls) == [ep |-> ep, bearer |-> getAuthHeaders(ls)]

\* ---------------------------------------------------------- AuthProvider
\* saveTokens that forgets the refresh token.
saveTokens_accessOnly(ls, authResponse) ==
  [ls EXCEPT !["access_token"] = authResponse.access_token]

saveTokens(ls, authResponse) ==
  [ls EXCEPT !["access_token"] = authResponse.access_token,
             !["refresh_token"] = authResponse.refresh_token]

\* clearTokens that forgets the refresh token.
clearTokens_keepsRefresh(ls) == [ls EXCEPT !["access_token"] = NULL]

clearTokens(ls) ==
  [ls EXCEPT !["access_token"] = NULL, !["refresh_token"] = NULL]

\* signOut on the pair (Session Store, Current User).
signOut(st) == [ls |-> clearTokens(st.ls), user |-> NULL]

isAuthenticated(u) == u # NULL

\* signIn that asks who-am-I before it saves the tokens.
signInTokens_savesLate(ls, authResponse) ==
  [ls |-> saveTokens(ls, authResponse), atMe |-> ls]

\* signIn lines 47-50: the tokens are saved, then getCurrentUser reads the
\* store for its header; atMe is the store as that request sees it.
signInTokens(ls, authResponse) ==
  [ls |-> saveTokens(ls, authResponse), atMe |-> saveTokens(ls, authResponse)]

\* A signIn whose catch signs out, as the catch of refreshAuth does.
signInCatch_signsOut(st) == [ls |-> clearTokens(st.ls), user |-> NULL]

\* A signIn whose catch removes the stored tokens before it rethrows.
signInCatch_clearsTokens(st) == [ls |-> clearTokens(st.ls), user |-> st.user]

\* signIn lines 52-55: the catch logs and rethrows; the session is untouched.
signInCatch(st) == st

\* refreshAuth lines 80-82, as signInTokens.
refreshTokens(ls, authResponse) ==
  [ls |-> saveTokens(ls, authResponse), atMe |-> saveTokens(ls, authResponse)]

\* A refreshAuth whose catch swallows the error without signing out.
refreshCatch_keepsSession(st) == [st |-> st, outcome |-> "resolved"]

\* A refreshAuth whose catch passes the error on to its caller.
refreshCatch_rethrows(st) == [st |-> st, outcome |-> "rejected"]

\* refreshAuth lines 84-87: the catch signs out and swallows the error, so
\* the promise of refreshAuth resolves.
refreshCatch(st) == [st |-> signOut(st), outcome |-> "resolved"]

\* ------------------------------------------------------------ AppContent
InitialFlow ==
  [showSignUp |-> FALSE, showOnboarding |-> FALSE, hasProfile |-> FALSE,
   showConfirmEmail |-> FALSE, signUpEmail |-> ""]

\* handleSignUpSuccess (lines 69-73).
SignUpSuccessFlow(f, email) ==
  [f EXCEPT !.signUpEmail = email, !.showSignUp = FALSE, !.showConfirmEmail = TRUE]

\* A handleEmailConfirmed that keeps the pending email.
EmailConfirmedFlow_keepsEmail(f) == [f EXCEPT !.showConfirmEmail = FALSE]

\* handleEmailConfirmed (lines 75-79).
EmailConfirmedFlow(f) == [f EXCEPT !.showConfirmEmail = FALSE, !.signUpEmail = ""]

\* A handleBackToSignUp that forgets to leave the confirmation step.
BackToSignUpFlow_keepsConfirm(f) == [f EXCEPT !.showSignUp = TRUE]

\* handleBackToSignUp (lines 81-84).
BackToSignUpFlow(f) == [f EXCEPT !.showConfirmEmail = FALSE, !.showSignUp = TRUE]

\* A handleOnboardingComplete that forgets hasProfile.
OnboardingCompleteFlow_noProfile(f) == [f EXCEPT !.showOnboarding = FALSE]

\* handleOnboardingComplete (lines 56-59).
OnboardingCompleteFlow(f) == [f EXCEPT !.showOnboarding = FALSE, !.hasProfile = TRUE]

\* The setters of handleSignOut (lines 63-66).
SignOutFlow(f) ==
  [f EXCEPT !.hasProfile = FALSE, !.showOnboarding = FALSE,
            !.showConfirmEmail = FALSE, !.signUpEmail = ""]

\* The screens AppContent can return.
Screens ==
  {"Loading", "ConfirmEmail", "SignUp", "SignIn", "WelcomeGate", "Onboarding", "Main"}

\* A render that looks at the session before it looks at authLoading.
Screen_authFirst(u, ld, f) ==
  IF ~isAuthenticated(u)
    THEN IF f.showConfirmEmail THEN "ConfirmEmail"
         ELSE IF f.showSignUp THEN "SignUp" ELSE "SignIn"
  ELSE IF ld THEN "Loading"
  ELSE IF ~f.hasProfile /\ ~f.showOnboarding THEN "WelcomeGate"
  ELSE IF f.showOnboarding THEN "Onboarding"
  ELSE "Main"

\* A render that tests showOnboarding before it tests isAuthenticated.
Screen_onboardingFirst(u, ld, f) ==
  IF ld THEN "Loading"
  ELSE IF f.showOnboarding THEN "Onboarding"
  ELSE IF ~isAuthenticated(u)
    THEN IF f.showConfirmEmail THEN "ConfirmEmail"
         ELSE IF f.showSignUp THEN "SignUp" ELSE "SignIn"
  ELSE IF ~f.hasProfile THEN "WelcomeGate"
  ELSE "Main"

\* A render without the isLoading branch of lines 86-96.
Screen_noLoading(u, ld, f) ==
  IF ~isAuthenticated(u)
    THEN IF f.showConfirmEmail THEN "ConfirmEmail"
         ELSE IF f.showSignUp THEN "SignUp" ELSE "SignIn"
  ELSE IF ~f.hasProfile /\ ~f.showOnboarding THEN "WelcomeGate"
  ELSE IF f.showOnboarding THEN "Onboarding"
  ELSE "Main"

\* The render of AppContent (lines 86-196): which screen is returned.
Screen(u, ld, f) ==
  IF ld THEN "Loading"
  ELSE IF ~isAuthenticated(u)
    THEN IF f.showConfirmEmail THEN "ConfirmEmail"
         ELSE IF f.showSignUp THEN "SignUp" ELSE "SignIn"
  ELSE IF ~f.hasProfile /\ ~f.showOnboarding THEN "WelcomeGate"
  ELSE IF f.showOnboarding THEN "Onboarding"
  ELSE "Main"

CurScreen == Screen(user, isLoading, flow)

FreshLoginForm == [error |-> NoMessage, isLoading |-> FALSE]
FreshSignUpForm == [error |-> NoMessage, success |-> FALSE, isLoading |-> FALSE]
FreshConfirmForm == [error |-> NoMessage, success |-> FALSE, isLoading |-> FALSE]
FreshOnboardingForm == [error |-> NoMessage, isLoading |-> FALSE]
\* A call keeps its data only while it is in flight.
IdleOp == [pc |-> "idle", resp |-> NoResp, attached |-> FALSE]
DoneOp == [pc |-> "done", resp |-> NoResp, attached |-> FALSE]
IdleSignUp == [pc |-> "idle", email |-> "", attached |-> FALSE]
DoneSignUp == [pc |-> "done", email |-> "", attached |-> FALSE]
IdleRefresh == [pc |-> "idle", resp |-> NoResp, calls |-> 0, sent |-> 0]
IdleConfirm == [pc |-> "idle", attached |-> FALSE]
IdleOnboarding == [pc |-> "idle", attached |-> FALSE]
AsStore(authResponse) ==
  [k \in Keys |-> IF k = "access_token" THEN authResponse.access_token
                                        ELSE authResponse.refresh_token]

\* A form that unmounts loses its state; the calls it started keep running
\* but their setters no longer reach a mounted form.
Detach(ops) == [k \in DOMAIN ops |-> [ops[k] EXCEPT !.attached = FALSE]]

\* The record of a step: its handler, the call it belongs to, the error it
\* surfaced, the requests it issued, the store its who-am-I request saw,
\* the UserInfo a who-am-I answered with, and the password fields a sign-up
\* submit read.
Step(act, k, err, reqs, atMe, me) ==
  [act |-> act, op |-> k, err |-> err, reqs |-> reqs, atMe |-> atMe, me |-> me,
   input |-> NoInput]

\* The end of every step: the state setters take effect, React re-renders,
\* the checkProfile effect runs when a new user object was set (fresh), and
\* LoginForm / SignUpForm keep their local state only while they stay mounted.
Commit(step, ls, u, fresh, ld, f, pr, lf, sio, sf, suo) ==
  /\ localStorage' = ls
  /\ user' = u
  /\ isLoading' = ld
  /\ flow' = f
  /\ screen' = Screen(u, ld, f)
  /\ UNCHANGED <<response, handled>>
  /\ UNCHANGED locationVars
  /\ probes' = IF fresh /\ isAuthenticated(u) THEN pr + 1 ELSE pr
  /\ loginForm' = IF Screen(u, ld, f) = "SignIn" THEN lf ELSE FreshLoginForm
  /\ signInOps' = IF Screen(u, ld, f) = "SignIn" THEN sio ELSE Detach(sio)
  /\ signUpForm' = IF Screen(u, ld, f) = "SignUp" THEN sf ELSE FreshSignUpForm
  /\ signUpOps' = IF Screen(u, ld, f) = "SignUp" THEN suo ELSE Detach(suo)
  /\ last' = IF fresh /\ isAuthenticated(u)
               THEN [step EXCEPT !.reqs = Append(@, Authed("/users/profile", ls))]
               ELSE step

\* ConfirmEmailForm and OnboardingForm after the render that ends a step:
\* they keep their local state only while they stay mounted.
Mount(cf, cfo, obf, obo) ==
  /\ confirmForm' = IF CurScreen' = "ConfirmEmail" THEN cf ELSE FreshConfirmForm
  /\ confirmOps' = IF CurScreen' = "ConfirmEmail" THEN cfo ELSE Detach(cfo)
  /\ onboardForm' = IF CurScreen' = "Onboarding" THEN obf ELSE FreshOnboardingForm
  /\ onboardOp' = IF CurScreen' = "Onboarding" THEN obo
                  ELSE [obo EXCEPT !.attached = FALSE]

\* A step that is not a step of these two forms.
Remount == Mount(confirmForm, confirmOps, onboardForm, onboardOp)

\* A step that touches neither form nor their calls.
CommitAuth(step, ls, u, fresh, ld, f, pr) ==
  Commit(step, ls, u, fresh, ld, f, pr, loginForm, signInOps, signUpForm, signUpOps)

\* ----------------------------------------- locations: OnboardingForm, MapView
\* Coordinates are counted in 1/10000 of a degree.  Null and Undefined stand
\* for the JavaScript values null and undefined; both lie outside the range
\* of a coordinate.
Null == 99999998
Undefined == 99999999
Coordinates == {0, 515074, -1278}
\* MapView lines 21-22: the default position (40.7128, -74.0060).
defaultLat == 407128
defaultLng == -740060
DefaultLocation == [lat |-> defaultLat, lng |-> defaultLng]
NoLocation == [lat |-> Null, lng |-> Null]      \* userLocation = null
NotBuilt == [location_lat |-> Null, location_lng |-> Null, built |-> FALSE]

\* What getUserProfile may answer: a failure, or a profile whose saved
\* coordinates are numbers or null.
UserProfiles ==
  {[ok |-> FALSE, location_lat |-> Null, location_lng |-> Null]}
    \cup [ok : {TRUE}, location_lat : Coordinates \cup {Null},
          location_lng : Coordinates \cup {Null}]

\* What the browser does with getCurrentPosition: navigator.geolocation is
\* missing, the error callback runs, or the success callback runs.
Geolocations ==
  {[supported |-> FALSE, ok |-> FALSE, position |-> NoLocation],
   [supported |-> TRUE, ok |-> FALSE, position |-> NoLocation]}
    \cup [supported : {TRUE}, ok : {TRUE},
          position : {[lat |-> 0, lng |-> 0], [lat |-> 488566, lng |-> 23522]}]

\* The truthiness of a number, null or undefined in JavaScript.
truthy(x) == x \notin {Null, Undefined, 0}

\* A submit that passes every number on and maps only null to undefined.
orUndefined_keepsZero(x) == IF x = Null THEN Undefined ELSE x

\* The alternate OnboardingForm, lines 82-83: locationLat || undefined.
orUndefined(x) == IF truthy(x) THEN x ELSE Undefined

\* MapView line 30: userProfile.location_lat && userProfile.location_lng.
hasSavedLocation(p) == truthy(p.location_lat) /\ truthy(p.location_lng)

\* A geolocation error callback that leaves the loading flag set.
onGeolocationError_staysLoading ==
  [userLocation |-> DefaultLocation, isLoadingLocation |-> TRUE]

\* MapView lines 49-54 and 78-82: the error callback, and lines 61-65 and
\* 84-87 for a browser without geolocation: the default position.
onGeolocationError == [userLocation |-> DefaultLocation, isLoadingLocation |-> FALSE]

\* MapView lines 42-48 and 71-77: the success callback.
onPosition(position) == [userLocation |-> position, isLoadingLocation |-> FALSE]

\* MapView.renderMap line 112: the centre of the map when it is drawn.
centre(location) == IF location = NoLocation THEN DefaultLocation ELSE location

\* Neither component is mounted.
LocationIdle ==
  /\ locationLat = Null
  /\ locationLng = Null
  /\ profileData = NotBuilt
  /\ userProfile = [ok |-> FALSE, location_lat |-> Null, location_lng |-> Null]
  /\ geolocation = [supported |-> FALSE, ok |-> FALSE, position |-> NoLocation]
  /\ mapPc = "unmounted"
  /\ userLocation = NoLocation
  /\ isLoadingLocation = TRUE

\* An OnboardingForm with some captured coordinates (useState null, or what
\* the geolocation button stored) and a MapView just mounted (lines 17-18),
\* with what the backend and the browser are going to answer.
LocationInit ==
  /\ locationLat \in Coordinates \cup {Null}
  /\ locationLng \in Coordinates \cup {Null}
  /\ profileData = NotBuilt
  /\ userProfile \in UserProfiles
  /\ geolocation \in Geolocations
  /\ mapPc = "profile"
  /\ userLocation = NoLocation
  /\ isLoadingLocation = TRUE
  /\ response = NoResponse
  /\ handled = NotHandled
  /\ user = NULL
  /\ isLoading = TRUE
  /\ flow = InitialFlow
  /\ screen = Screen(user, isLoading, flow)
  /\ localStorage = NoStore
  /\ initPc = "start"
  /\ refreshOp = IdleRefresh
  /\ signInOps = [k \in 1..MaxSignIns |-> IdleOp]
  /\ signIns = 0
  /\ loginForm = FreshLoginForm
  /\ signUpOps = [k \in 1..MaxSignUps |-> IdleSignUp]
  /\ signUps = 0
  /\ signUpForm = FreshSignUpForm
  /\ timers = <<>>
  /\ probes = 0
  /\ confirmOps = [k \in 1..MaxConfirms |-> IdleConfirm]
  /\ confirmForm = FreshConfirmForm
  /\ confirmTimers = 0
  /\ onboardOp = IdleOnboarding
  /\ onboardForm = FreshOnboardingForm
  /\ last = Step("Init", 0, NoMessage, <<>>, NoStore, NULL)

\* The alternate OnboardingForm.handleSubmit, lines 78-84: the location
\* fields of profileData.
BuildProfileData ==
  /\ ~profileData.built
  /\ profileData' = [location_lat |-> orUndefined(locationLat),
                     location_lng |-> orUndefined(locationLng), built |-> TRUE]
  /\ UNCHANGED <<locationLat, locationLng, userProfile, geolocation, mapPc,
                 userLocation, isLoadingLocation>>
  /\ UNCHANGED authVars

\* MapView.getUserLocation after its await (lines 28-40 and 61-69, 84-87):
\* the saved location, or the call of getCurrentPosition, or the default.
GetUserLocation ==
  /\ mapPc = "profile"
  /\ IF userProfile.ok /\ hasSavedLocation(userProfile)
       THEN /\ userLocation' = [lat |-> userProfile.location_lat,
                                lng |-> userProfile.location_lng]
            /\ isLoadingLocation' = FALSE
            /\ mapPc' = "done"
       ELSE IF geolocation.supported
         THEN /\ mapPc' = "geolocation"
              /\ UNCHANGED <<userLocation, isLoadingLocation>>
         ELSE /\ userLocation' = onGeolocationError.userLocation
              /\ isLoadingLocation' = onGeolocationError.isLoadingLocation
              /\ mapPc' = "done"
  /\ UNCHANGED <<locationLat, locationLng, profileData, userProfile, geolocation>>
  /\ UNCHANGED authVars

\* The browser calls one of the two callbacks of getCurrentPosition.
GeolocationCallback ==
  /\ mapPc = "geolocation"
  /\ LET m == IF geolocation.ok THEN onPosition(geolocation.position)
              ELSE onGeolocationError
     IN /\ userLocation' = m.userLocation
        /\ isLoadingLocation' = m.isLoadingLocation
  /\ mapPc' = "done"
  /\ UNCHANGED <<locationLat, locationLng, profileData, userProfile, geolocation>>
  /\ UNCHANGED authVars

LocationNext == BuildProfileData \/ GetUserLocation \/ GeolocationCallback

LocationSpec == LocationInit /\ [][LocationNext]_vars

\* ------------------------------------------------------------------ Init
Init ==
  /\ localStorage \in InitialStores
  /\ user = NULL
  /\ isLoading = TRUE
  /\ initPc = "start"
  /\ refreshOp = IdleRefresh
  /\ signInOps = [k \in 1..MaxSignIns |-> IdleOp]
  /\ signIns = 0
  /\ loginForm = FreshLoginForm
  /\ signUpOps = [k \in 1..MaxSignUps |-> IdleSignUp]
  /\ signUps = 0
  /\ signUpForm = FreshSignUpForm
  /\ timers = <<>>
  /\ flow = InitialFlow
  /\ probes = 0
  /\ confirmOps = [k \in 1..MaxConfirms |-> IdleConfirm]
  /\ confirmForm = FreshConfirmForm
  /\ confirmTimers = 0
  /\ onboardOp = IdleOnboarding
  /\ onboardForm = FreshOnboardingForm
  /\ screen = Screen(user, isLoading, flow)
  /\ response = NoResponse
  /\ handled = NotHandled
  /\ LocationIdle
  /\ last = Step("Init", 0, NoMessage, <<>>, NoStore, NULL)

\* ------------------------------------------------ initializeAuth (effect)
\* An initializeAuth that goes on when either token is stored.
hasToken_either(ls) == ls["access_token"] # NULL \/ ls["refresh_token"] # NULL

\* Lines 93-94: const token = getItem('access_token'); if (token).
hasToken(ls) == ls["access_token"] # NULL

\* An initializeAuth without its finally block.
initializeAuthFinally_skips(ld) == ld

\* Lines 107-109: the finally block of initializeAuth, setIsLoading(false).
initializeAuthFinally(ld) == FALSE

\* Lines 92-97 up to the first await; with no token the finally block runs.
InitializeAuth ==
  /\ initPc = "start"
  /\ IF hasToken(localStorage)
       THEN /\ initPc' = "me"
            /\ CommitAuth(Step("InitializeAuth", 0, NoMessage,
                               <<Authed("/auth/me", localStorage)>>, localStorage,
                               NULL),
                          localStorage, user, FALSE, isLoading, flow, probes)
       ELSE /\ initPc' = "done"
            /\ CommitAuth(Step("InitializeAuth", 0, NoMessage, <<>>, NoStore, NULL),
                          localStorage, user, FALSE,
                          initializeAuthFinally(isLoading), flow, probes)
  /\ Remount
  /\ UNCHANGED <<refreshOp, signIns, signUps, timers, confirmTimers>>

\* A refreshAuth without the check of line 75.
refreshAuth_noGuard(st) ==
  [op |-> [refreshOp EXCEPT !.pc = "refresh", !.calls = @ + 1, !.sent = @ + 1],
   st |-> st, reqs |-> <<Plain("/auth/refresh")>>, err |-> NoMessage]

\* refreshAuth up to its first await (lines 73-79), entered from the catch of
\* initializeAuth: the refreshAuth record, the session pair, the requests.
refreshAuth(st) ==
  LET refreshToken == st.ls["refresh_token"] IN
    IF refreshToken = NULL
      THEN [op |-> [refreshOp EXCEPT !.pc = refreshCatch(st).outcome, !.calls = @ + 1],
            st |-> refreshCatch(st).st, reqs |-> <<>>,
            err |-> [text |-> "No refresh token available", status |-> 0]]
      ELSE [op |-> [refreshOp EXCEPT !.pc = "refresh", !.calls = @ + 1, !.sent = @ + 1],
            st |-> st, reqs |-> <<Plain("/auth/refresh")>>, err |-> NoMessage]

\* initializeAuth lines 101-106: a refreshAuth that rejects reaches the inner
\* catch, which signs out.
AfterRefresh(outcome, st) == IF outcome = "rejected" THEN signOut(st) ELSE st

\* An initializeAuth whose catch signs out at once instead of refreshing.
initializeAuthCatch_signsOut(st) ==
  [op |-> [refreshOp EXCEPT !.pc = "resolved"], st |-> signOut(st),
   reqs |-> <<>>, err |-> NoMessage]

\* initializeAuth lines 98-102: the outer catch calls refreshAuth.
initializeAuthCatch(st) == refreshAuth(st)

\* The who-am-I of initializeAuth settles (lines 95-109).  When refreshAuth
\* ends without a request, the finally block follows without another await.
InitializeAuthMe ==
  /\ initPc = "me"
  /\ \E r \in Outcomes, userInfo \in Users :
       LET res == ApiCall(r)
           ra == initializeAuthCatch([ls |-> localStorage, user |-> user])
           over == ra.op.pc \in {"resolved", "rejected"}
           fin == AfterRefresh(ra.op.pc, ra.st)
       IN IF res.ok
            THEN /\ initPc' = "done"
                 /\ refreshOp' = refreshOp
                 /\ CommitAuth(Step("InitializeAuthMe", 0, NoMessage, <<>>, NoStore, userInfo),
                               localStorage, userInfo, TRUE,
                               initializeAuthFinally(isLoading), flow, probes)
            ELSE /\ refreshOp' = ra.op
                 /\ initPc' = IF over THEN "done" ELSE "refreshAuth"
                 /\ CommitAuth(Step("InitializeAuthMe", 0, res.message, ra.reqs, NoStore, NULL),
                               fin.ls, fin.user, FALSE,
                               IF over THEN initializeAuthFinally(isLoading)
                               ELSE isLoading, flow, probes)
  /\ Remount
  /\ UNCHANGED <<signIns, signUps, timers, confirmTimers>>

\* The refresh request settles (lines 79-87); on failure refreshAuth ends and
\* initializeAuth runs its finally block.
RefreshAuthResp ==
  /\ initPc = "refreshAuth"
  /\ refreshOp.pc = "refresh"
  /\ \E r \in Outcomes, authResponse \in AuthResponses :
       LET res == ApiCall(r)
           tk == refreshTokens(localStorage, authResponse)
           c == refreshCatch([ls |-> localStorage, user |-> user])
           fin == AfterRefresh(c.outcome, c.st)
       IN IF res.ok
            THEN /\ refreshOp' = [refreshOp EXCEPT !.pc = "me", !.resp = authResponse]
                 /\ initPc' = initPc
                 /\ CommitAuth(Step("RefreshAuthResp", 0, NoMessage,
                                    <<Authed("/auth/me", tk.atMe)>>, tk.atMe, NULL),
                               tk.ls, user, FALSE, isLoading, flow, probes)
            ELSE /\ refreshOp' = [refreshOp EXCEPT !.pc = c.outcome]
                 /\ initPc' = "done"
                 /\ CommitAuth(Step("RefreshAuthResp", 0, res.message, <<>>, NoStore, NULL),
                               fin.ls, fin.user, FALSE,
                               initializeAuthFinally(isLoading), flow, probes)
  /\ Remount
  /\ UNCHANGED <<signIns, signUps, timers, confirmTimers>>

\* The who-am-I of refreshAuth settles (lines 82-87), then the finally block.
\* The step records the tokens the call had saved before its who-am-I.
RefreshAuthMe ==
  /\ initPc = "refreshAuth"
  /\ refreshOp.pc = "me"
  /\ \E r \in Outcomes, userInfo \in Users :
       LET res == ApiCall(r)
           c == refreshCatch([ls |-> localStorage, user |-> user])
           fin == AfterRefresh(c.outcome, c.st)
       IN /\ initPc' = "done"
          /\ IF res.ok
               THEN /\ refreshOp' = [refreshOp EXCEPT !.pc = "resolved",
                                                      !.resp = NoResp]
                    /\ CommitAuth(Step("RefreshAuthMe", 0, NoMessage, <<>>,
                                       AsStore(refreshOp.resp), userInfo),
                                  localStorage, userInfo, TRUE,
                                  initializeAuthFinally(isLoading), flow, probes)
               ELSE /\ refreshOp' = [refreshOp EXCEPT !.pc = c.outcome,
                                                      !.resp = NoResp]
                    /\ CommitAuth(Step("RefreshAuthMe", 0, res.message, <<>>, NoStore, NULL),
                                  fin.ls, fin.user, FALSE,
                                  initializeAuthFinally(isLoading), flow, probes)
  /\ Remount
  /\ UNCHANGED <<signIns, signUps, timers, confirmTimers>>

\* ------------------------------------------------- LoginForm / signIn
\* LoginForm.handleSubmit up to the await inside signIn.  The submit button
\* is disabled while the form's isLoading is set.
LoginSubmit ==
  /\ CurScreen = "SignIn"
  /\ ~loginForm.isLoading
  /\ signIns < MaxSignIns
  /\ signIns' = signIns + 1
  /\ Commit(Step("LoginSubmit", signIns + 1, NoMessage, <<Plain("/auth/signin")>>,
                 NoStore, NULL),
            localStorage, user, FALSE, isLoading, flow, probes,
            [error |-> NoMessage, isLoading |-> TRUE],
            [signInOps EXCEPT ![signIns + 1] =
               [IdleOp EXCEPT !.pc = "signin", !.attached = TRUE]],
            signUpForm, signUpOps)
  /\ Remount
  /\ UNCHANGED <<initPc, refreshOp, signUps, timers, confirmTimers>>

\* What handleSubmit's catch/finally leave in the form of call k.
LoginSettled(k, message) ==
  IF signInOps[k].attached THEN [error |-> message, isLoading |-> FALSE]
  ELSE loginForm

LoginDone(k) ==
  IF signInOps[k].attached THEN [loginForm EXCEPT !.isLoading = FALSE]
  ELSE loginForm

\* The signin request of call k settles (signIn lines 46-50, or its catch and
\* the catch/finally of LoginForm.handleSubmit).
SignInResp(k) ==
  /\ signInOps[k].pc = "signin"
  /\ \E r \in Outcomes, authResponse \in AuthResponses :
       LET res == ApiCall(r)
           tk == signInTokens(localStorage, authResponse)
           c == signInCatch([ls |-> localStorage, user |-> user])
       IN IF res.ok
            THEN Commit(Step("SignInResp", k, NoMessage,
                             <<Authed("/auth/me", tk.atMe)>>, tk.atMe, NULL),
                        tk.ls, user, FALSE, isLoading, flow, probes, loginForm,
                        [signInOps EXCEPT ![k].pc = "me", ![k].resp = authResponse],
                        signUpForm, signUpOps)
            ELSE Commit(Step("SignInResp", k, res.message, <<>>, NoStore, NULL),
                        c.ls, c.user, FALSE, isLoading, flow, probes,
                        LoginSettled(k, res.message),
                        [signInOps EXCEPT ![k] = DoneOp], signUpForm, signUpOps)
  /\ Remount
  /\ UNCHANGED <<initPc, refreshOp, signIns, signUps, timers, confirmTimers>>

\* The who-am-I of call k settles (lines 50-55) and handleSubmit finishes.
SignInMe(k) ==
  /\ signInOps[k].pc = "me"
  /\ \E r \in Outcomes, userInfo \in Users :
       LET res == ApiCall(r)
           c == signInCatch([ls |-> localStorage, user |-> user])
       IN IF res.ok
            THEN Commit(Step("SignInMe", k, NoMessage, <<>>, NoStore, userInfo),
                        localStorage, userInfo, TRUE, isLoading, flow, probes,
                        LoginDone(k), [signInOps EXCEPT ![k] = DoneOp],
                        signUpForm, signUpOps)
            ELSE Commit(Step("SignInMe", k, res.message, <<>>, NoStore, NULL),
                        c.ls, c.user, FALSE, isLoading, flow, probes,
                        LoginSettled(k, res.message),
                        [signInOps EXCEPT ![k] = DoneOp], signUpForm, signUpOps)
  /\ Remount
  /\ UNCHANGED <<initPc, refreshOp, signIns, signUps, timers, confirmTimers>>

\* ------------------------------------------------- SignUpForm / signUp
\* A signUp that stores tokens for the new account.
signUp_savesTokens(st) ==
  [st EXCEPT !.ls = saveTokens(st.ls, [access_token |-> "accA",
                                       refresh_token |-> "refA"])]

\* A signUp that signs the new account in.
signUp_signsIn(st) == [st EXCEPT !.user = "alice"]

\* signUp lines 58-65: the response is returned as it is; neither saveTokens
\* nor setUser is called.  On the pair (Session Store, Current User).
signUp(st) == st

\* A SignUpForm that checks the length before it compares the two fields.
validatePasswords_lengthFirst(password, confirmPassword) ==
  IF Len(password) < 8
    THEN [text |-> "Password must be at least 8 characters long", status |-> 0]
  ELSE IF password # confirmPassword
    THEN [text |-> "Passwords do not match", status |-> 0]
  ELSE NoMessage

\* SignUpForm.handleSubmit lines 24-32: the two checks before the call, as
\* the error they set (NoMessage when both pass).
validatePasswords(password, confirmPassword) ==
  IF password # confirmPassword
    THEN [text |-> "Passwords do not match", status |-> 0]
  ELSE IF Len(password) < 8
    THEN [text |-> "Password must be at least 8 characters long", status |-> 0]
  ELSE NoMessage

\* SignUpForm.handleSubmit up to the await (lines 19-37); password and
\* confirmPassword are what the two password fields hold and email what the
\* email field holds.
SignUpSubmit ==
  /\ CurScreen = "SignUp"
  /\ ~signUpForm.isLoading
  /\ signUps < MaxSignUps
  /\ \E email \in Emails, password \in Passwords, confirmPassword \in Passwords :
       LET invalid == validatePasswords(password, confirmPassword)
           input == [password |-> password, confirmPassword |-> confirmPassword]
       IN IF invalid # NoMessage
            THEN /\ signUps' = signUps
                 /\ Commit([Step("SignUpSubmit", 0, NoMessage, <<>>, NoStore, NULL)
                              EXCEPT !.input = input],
                           localStorage, user, FALSE, isLoading, flow, probes,
                           loginForm, signInOps,
                           [signUpForm EXCEPT !.error = invalid, !.success = FALSE],
                           signUpOps)
            ELSE /\ signUps' = signUps + 1
                 /\ Commit([Step("SignUpSubmit", signUps + 1, NoMessage,
                                 <<Plain("/auth/signup")>>, NoStore, NULL)
                              EXCEPT !.input = input],
                           localStorage, user, FALSE, isLoading, flow, probes,
                           loginForm, signInOps,
                           [signUpForm EXCEPT !.error = NoMessage, !.success = FALSE,
                                              !.isLoading = TRUE],
                           [signUpOps EXCEPT ![signUps + 1] =
                              [pc |-> "signup", email |-> email, attached |-> TRUE]])
  /\ Remount
  /\ UNCHANGED <<initPc, refreshOp, signIns, timers, confirmTimers>>

\* A callback that hands over what the email field holds when it runs.
timerEmail_fieldNow(submitted, field) == field

\* Lines 41-43: the callback closes over the email of the render in which
\* handleSubmit was created, that is the email that was submitted.
timerEmail(submitted, field) == submitted

\* The signup request of call k settles (signUp lines 59-64 and handleSubmit
\* lines 37-48): on success the 1.5 s timer is armed with the submitted email.
SignUpResp(k) ==
  /\ signUpOps[k].pc = "signup"
  /\ \E r \in Outcomes :
       LET res == ApiCall(r)
           st == signUp([ls |-> localStorage, user |-> user])
           sf == IF ~signUpOps[k].attached THEN signUpForm
                 ELSE IF res.ok
                   THEN [signUpForm EXCEPT !.success = TRUE, !.isLoading = FALSE]
                   ELSE [signUpForm EXCEPT !.error = res.message, !.isLoading = FALSE]
       IN /\ timers' = IF res.ok THEN Append(timers, signUpOps[k].email) ELSE timers
          /\ Commit(Step("SignUpResp", k, res.message, <<>>, NoStore, NULL),
                    st.ls, st.user, FALSE, isLoading, flow, probes,
                    loginForm, signInOps, sf, [signUpOps EXCEPT ![k] = DoneSignUp])
  /\ Remount
  /\ UNCHANGED <<initPc, refreshOp, signIns, signUps, confirmTimers>>

\* The timer of SignUpForm fires: onSignUpSuccess(email) = handleSignUpSuccess.
\* The email field is enabled again by then, so it may hold any email.
handleSignUpSuccess ==
  /\ timers # <<>>
  /\ timers' = Tail(timers)
  /\ \E field \in Emails :
       CommitAuth(Step("handleSignUpSuccess", 0, NoMessage, <<>>, NoStore, NULL),
                  localStorage, user, FALSE, isLoading,
                  SignUpSuccessFlow(flow, timerEmail(Head(timers), field)), probes)
  /\ Remount
  /\ UNCHANGED <<initPc, refreshOp, signIns, signUps, confirmTimers>>

\* ------------------------------------------ ConfirmEmailForm / confirmSignUp
ConfirmsPending ==
  Cardinality({k \in 1..MaxConfirms : confirmOps[k].pc # "idle"}) + confirmTimers

\* The record the next confirmSignUp call takes.
FreeConfirm ==
  CHOOSE i \in 1..MaxConfirms :
    /\ confirmOps[i].pc = "idle"
    /\ \A j \in 1..(i - 1) : confirmOps[j].pc # "idle"

\* ConfirmEmailForm.handleSubmit up to the await (lines 21-34).  The submit
\* button is disabled while loading and while the code field is blank, so the
\* branch of line 26 is not taken.
ConfirmSubmit ==
  /\ CurScreen = "ConfirmEmail"
  /\ ~confirmForm.isLoading
  /\ ConfirmsPending < MaxConfirms
  /\ LET k == FreeConfirm
     IN /\ CommitAuth(Step("ConfirmSubmit", k, NoMessage,
                           <<Plain("/auth/confirm-signup")>>, NoStore, NULL),
                      localStorage, user, FALSE, isLoading, flow, probes)
        /\ Mount([error |-> NoMessage, success |-> FALSE, isLoading |-> TRUE],
                 [confirmOps EXCEPT ![k] = [pc |-> "confirm", attached |-> TRUE]],
                 onboardForm, onboardOp)
  /\ UNCHANGED <<initPc, refreshOp, signIns, signUps, timers, confirmTimers>>

\* A ConfirmEmailForm whose catch also dismisses the screen.
confirmCatch_dismisses(f) == EmailConfirmedFlow(f)

\* handleSubmit lines 39-41: the catch sets the form error; no flow setter.
confirmCatch(f) == f

\* The confirm-signup request of call k settles (lines 34-43): on success the
\* 2 s timer is armed.
ConfirmResp(k) ==
  /\ confirmOps[k].pc = "confirm"
  /\ \E r \in Outcomes :
       LET res == ApiCall(r)
           cf == IF ~confirmOps[k].attached THEN confirmForm
                 ELSE IF res.ok
                   THEN [confirmForm EXCEPT !.success = TRUE, !.isLoading = FALSE]
                   ELSE [confirmForm EXCEPT !.error = res.message, !.isLoading = FALSE]
       IN /\ confirmTimers' = IF res.ok THEN confirmTimers + 1 ELSE confirmTimers
          /\ CommitAuth(Step("ConfirmResp", k, res.message, <<>>, NoStore, NULL),
                        localStorage, user, FALSE, isLoading,
                        IF res.ok THEN flow ELSE confirmCatch(flow), probes)
          /\ Mount(cf, [confirmOps EXCEPT ![k] = IdleConfirm], onboardForm, onboardOp)
  /\ UNCHANGED <<initPc, refreshOp, signIns, signUps, timers>>

\* The timer of ConfirmEmailForm fires: onConfirmed() = handleEmailConfirmed.
handleEmailConfirmed ==
  /\ confirmTimers > 0
  /\ confirmTimers' = confirmTimers - 1
  /\ CommitAuth(Step("handleEmailConfirmed", 0, NoMessage, <<>>, NoStore, NULL),
                localStorage, user, FALSE, isLoading, EmailConfirmedFlow(flow), probes)
  /\ Remount
  /\ UNCHANGED <<initPc, refreshOp, signIns, signUps, timers>>

\* ------------------------------------------------------ OnboardingForm
\* An OnboardingForm that sends the combined write whatever auto-create said.
afterAutoCreate_always(res) == "complete"

\* handleSubmit lines 54-72: the await of autoCreateProfile throws on failure,
\* so completeOnboarding is reached only when it succeeded.
afterAutoCreate(res) == IF res.ok THEN "complete" ELSE "idle"

\* OnboardingForm.handleSubmit up to its first await (lines 47-54).  The
\* submit button is disabled while loading.
OnboardingSubmit ==
  /\ CurScreen = "Onboarding"
  /\ ~onboardForm.isLoading
  /\ CommitAuth(Step("OnboardingSubmit", 0, NoMessage,
                     <<Authed("/users/profile/auto-create", localStorage)>>,
                     NoStore, NULL),
                localStorage, user, FALSE, isLoading, flow, probes)
  /\ Mount(confirmForm, confirmOps, [error |-> NoMessage, isLoading |-> TRUE],
           [pc |-> "create", attached |-> TRUE])
  /\ UNCHANGED <<initPc, refreshOp, signIns, signUps, timers, confirmTimers>>

\* An OnboardingForm whose handleSubmit has no finally block.
OnboardingSettled_staysLoading(message) ==
  IF onboardOp.attached THEN [error |-> message, isLoading |-> TRUE]
  ELSE onboardForm

\* What the catch and finally of handleSubmit leave in the form (lines 74-78).
OnboardingSettled(message) ==
  IF onboardOp.attached THEN [error |-> message, isLoading |-> FALSE]
  ELSE onboardForm

\* The auto-create request settles (lines 54-72, or the catch and finally).
AutoCreateResp ==
  /\ onboardOp.pc = "create"
  /\ \E r \in Outcomes :
       LET res == ApiCall(r)
           pc == afterAutoCreate(res)
       IN /\ CommitAuth(Step("AutoCreateResp", 0, res.message,
                             IF pc = "complete"
                               THEN <<Authed("/users/onboarding", localStorage)>>
                               ELSE <<>>,
                             NoStore, NULL),
                        localStorage, user, FALSE, isLoading, flow, probes)
          /\ Mount(confirmForm, confirmOps,
                   IF pc = "complete" THEN onboardForm
                   ELSE OnboardingSettled(res.message),
                   IF pc = "complete" THEN [onboardOp EXCEPT !.pc = "complete"]
                   ELSE IdleOnboarding)
  /\ UNCHANGED <<initPc, refreshOp, signIns, signUps, timers, confirmTimers>>

\* The onboarding request settles (lines 72-78): on success onComplete() =
\* handleOnboardingComplete runs before the finally block.
CompleteOnboardingResp ==
  /\ onboardOp.pc = "complete"
  /\ \E r \in Outcomes :
       LET res == ApiCall(r)
       IN /\ CommitAuth(Step("CompleteOnboardingResp", 0, res.message, <<>>,
                             NoStore, NULL),
                        localStorage, user, FALSE, isLoading,
                        IF res.ok THEN OnboardingCompleteFlow(flow) ELSE flow, probes)
          /\ Mount(confirmForm, confirmOps,
                   IF res.ok
                     THEN (IF onboardOp.attached
                             THEN [onboardForm EXCEPT !.isLoading = FALSE]
                             ELSE onboardForm)
                     ELSE OnboardingSettled(res.message),
                   IdleOnboarding)
  /\ UNCHANGED <<initPc, refreshOp, signIns, signUps, timers, confirmTimers>>

\* ------------------------------------------------------ AppContent events
handleSignOut ==
  /\ CurScreen \in {"WelcomeGate", "Main"}
  /\ LET out == signOut([ls |-> localStorage, user |-> user])
     IN CommitAuth(Step("handleSignOut", 0, NoMessage, <<>>, NoStore, NULL),
                   out.ls, out.user, FALSE, isLoading, SignOutFlow(flow), probes)
  /\ Remount
  /\ UNCHANGED <<initPc, refreshOp, signIns, signUps, timers, confirmTimers>>

\* A checkProfile whose catch leaves hasProfile as it was.
checkProfileCatch_keepsFlag(f, ls) == [flow |-> f, reqs |-> <<>>]

\* A checkProfile whose catch starts onboarding by itself.
checkProfileCatch_startsOnboarding(f, ls) ==
  [flow |-> [f EXCEPT !.hasProfile = FALSE, !.showOnboarding = TRUE], reqs |-> <<>>]

\* A checkProfile whose catch asks for the profile again.
checkProfileCatch_retries(f, ls) ==
  [flow |-> [f EXCEPT !.hasProfile = FALSE],
   reqs |-> <<Authed("/users/profile", ls)>>]

\* checkProfile lines 46-49: the catch sets hasProfile to false, nothing else.
checkProfileCatch(f, ls) == [flow |-> [f EXCEPT !.hasProfile = FALSE], reqs |-> <<>>]

\* A checkProfile whose try leaves hasProfile as it was.
checkProfileTry_ignored(f) == f

\* checkProfile lines 44-45: after the awaited fetch, setHasProfile(true).
checkProfileTry(f) == [f EXCEPT !.hasProfile = TRUE]

\* A getUserProfile issued by the checkProfile effect settles (lines 44-49).
checkProfile ==
  /\ probes > 0
  /\ \E r \in Outcomes :
       LET res == ApiCall(r)
           c == checkProfileCatch(flow, localStorage)
       IN IF res.ok
            THEN CommitAuth(Step("checkProfile", 0, NoMessage, <<>>, NoStore, NULL),
                            localStorage, user, FALSE, isLoading,
                            checkProfileTry(flow), probes - 1)
            ELSE CommitAuth(Step("checkProfile", 0, Discarded, c.reqs, NoStore, NULL),
                            localStorage, user, FALSE, isLoading, c.flow,
                            probes - 1 + Len(c.reqs))
  /\ Remount
  /\ UNCHANGED <<initPc, refreshOp, signIns, signUps, timers, confirmTimers>>

handleBackToSignUp ==
  /\ CurScreen = "ConfirmEmail"
  /\ ~confirmForm.isLoading
  /\ CommitAuth(Step("handleBackToSignUp", 0, NoMessage, <<>>, NoStore, NULL),
                localStorage, user, FALSE, isLoading, BackToSignUpFlow(flow), probes)
  /\ Remount
  /\ UNCHANGED <<initPc, refreshOp, signIns, signUps, timers, confirmTimers>>

onSwitchToSignUp ==
  /\ CurScreen = "SignIn"
  /\ ~loginForm.isLoading
  /\ CommitAuth(Step("onSwitchToSignUp", 0, NoMessage, <<>>, NoStore, NULL),
                localStorage, user, FALSE, isLoading,
                [flow EXCEPT !.showSignUp = TRUE], probes)
  /\ Remount
  /\ UNCHANGED <<initPc, refreshOp, signIns, signUps, timers, confirmTimers>>

onSwitchToLogin ==
  /\ CurScreen = "SignUp"
  /\ ~signUpForm.isLoading
  /\ CommitAuth(Step("onSwitchToLogin", 0, NoMessage, <<>>, NoStore, NULL),
                localStorage, user, FALSE, isLoading,
                [flow EXCEPT !.showSignUp = FALSE], probes)
  /\ Remount
  /\ UNCHANGED <<initPc, refreshOp, signIns, signUps, timers, confirmTimers>>

StartSetup ==
  /\ CurScreen = "WelcomeGate"
  /\ CommitAuth(Step("StartSetup", 0, NoMessage, <<>>, NoStore, NULL),
                localStorage, user, FALSE, isLoading,
                [flow EXCEPT !.showOnboarding = TRUE], probes)
  /\ Remount
  /\ UNCHANGED <<initPc, refreshOp, signIns, signUps, timers, confirmTimers>>

Next ==
  \/ InitializeAuth
  \/ InitializeAuthMe
  \/ RefreshAuthResp
  \/ RefreshAuthMe
  \/ LoginSubmit
  \/ \E k \in 1..MaxSignIns : SignInResp(k)
  \/ \E k \in 1..MaxSignIns : SignInMe(k)
  \/ SignUpSubmit
  \/ \E k \in 1..MaxSignUps : SignUpResp(k)
  \/ handleSignUpSuccess
  \/ ConfirmSubmit
  \/ \E k \in 1..MaxConfirms : ConfirmResp(k)
  \/ handleEmailConfirmed
  \/ OnboardingSubmit
  \/ AutoCreateResp
  \/ CompleteOnboardingResp
  \/ handleSignOut
  \/ checkProfile
  \/ handleBackToSignUp
  \/ onSwitchToSignUp
  \/ onSwitchToLogin
  \/ StartSetup

Spec == Init /\ [][Next]_vars

\* The initializeAuth effect runs once the provider is mounted, and every
\* call it issues settles.
InitializeSettles ==
  /\ WF_vars(InitializeAuth)
  /\ WF_vars(InitializeAuthMe)
  /\ WF_vars(RefreshAuthResp)
  /\ WF_vars(RefreshAuthMe)

FairSpec == Spec /\ InitializeSettles

\* ------------------------------------------------- the render on its own
\* Every value the inputs of the render can take, whether or not a run of the
\* application reaches the combination.
FlowStates ==
  [showSignUp : BOOLEAN, showOnboarding : BOOLEAN, hasProfile : BOOLEAN,
   showConfirmEmail : BOOLEAN, signUpEmail : Emails \cup {""}]

NotRendered == "none"

RenderInit ==
  /\ user \in Users \cup {NULL}
  /\ isLoading \in BOOLEAN
  /\ flow \in FlowStates
  /\ screen = NotRendered
  /\ response = NoResponse
  /\ handled = NotHandled
  /\ LocationIdle
  /\ localStorage = NoStore
  /\ initPc = "done"
  /\ refreshOp = IdleRefresh
  /\ signInOps = [k \in 1..MaxSignIns |-> IdleOp]
  /\ signIns = 0
  /\ loginForm = FreshLoginForm
  /\ signUpOps = [k \in 1..MaxSignUps |-> IdleSignUp]
  /\ signUps = 0
  /\ signUpForm = FreshSignUpForm
  /\ timers = <<>>
  /\ probes = 0
  /\ confirmOps = [k \in 1..MaxConfirms |-> IdleConfirm]
  /\ confirmForm = FreshConfirmForm
  /\ confirmTimers = 0
  /\ onboardOp = IdleOnboarding
  /\ onboardForm = FreshOnboardingForm
  /\ last = Step("Init", 0, NoMessage, <<>>, NoStore, NULL)

\* AppContent renders once with the inputs it was given.
Render ==
  /\ screen = NotRendered
  /\ screen' = Screen(user, isLoading, flow)
  /\ UNCHANGED <<localStorage, user, isLoading, initPc, refreshOp, signInOps,
                 signIns, loginForm, signUpOps, signUps, signUpForm, timers, flow,
                 probes, confirmOps, confirmForm, confirmTimers, onboardOp,
                 onboardForm, response, handled, last>>
  /\ UNCHANGED locationVars

RenderSpec == RenderInit /\ [][Render]_vars

\* --------------------------------------------- handleResponse on its own
\* The HTTP responses handleResponse is applied to: a status, and a body that
\* is not JSON, or JSON without a detail field, or JSON with one.
Statuses == {200, 201, 204, 301, 400, 401, 403, 404, 422, 500, 503}
Details == {"Invalid or expired token", "Invalid verification code",
            "User already exists"}
Responses ==
  {[transport |-> TRUE, status |-> st, parses |-> FALSE, detail |-> NoDetail] :
     st \in Statuses}
  \cup {[transport |-> TRUE, status |-> st, parses |-> TRUE, detail |-> d] :
          st \in Statuses, d \in Details \cup {NoDetail}}

ResponseInit ==
  /\ response \in Responses
  /\ handled = NotHandled
  /\ LocationIdle
  /\ user = NULL
  /\ isLoading = TRUE
  /\ flow = InitialFlow
  /\ screen = Screen(user, isLoading, flow)
  /\ localStorage = NoStore
  /\ initPc = "start"
  /\ refreshOp = IdleRefresh
  /\ signInOps = [k \in 1..MaxSignIns |-> IdleOp]
  /\ signIns = 0
  /\ loginForm = FreshLoginForm
  /\ signUpOps = [k \in 1..MaxSignUps |-> IdleSignUp]
  /\ signUps = 0
  /\ signUpForm = FreshSignUpForm
  /\ timers = <<>>
  /\ probes = 0
  /\ confirmOps = [k \in 1..MaxConfirms |-> IdleConfirm]
  /\ confirmForm = FreshConfirmForm
  /\ confirmTimers = 0
  /\ onboardOp = IdleOnboarding
  /\ onboardForm = FreshOnboardingForm
  /\ last = Step("Init", 0, NoMessage, <<>>, NoStore, NULL)

\* An endpoint method hands the response of its fetch to handleResponse.
HandleResponse ==
  /\ handled = NotHandled
  /\ handled' = handleResponse(response)
  /\ UNCHANGED <<localStorage, user, isLoading, initPc, refreshOp, signInOps,
                 signIns, loginForm, signUpOps, signUps, signUpForm, timers, flow,
                 probes, confirmOps, confirmForm, confirmTimers, onboardOp,
                 onboardForm, screen, response, last>>
  /\ UNCHANGED locationVars

ResponseSpec == ResponseInit /\ [][HandleResponse]_vars

\* ------------------------------------------------------- model soundness
TypeOK ==
  /\ localStorage \in [Keys -> Tokens \cup {NULL}]
  /\ user \in Users \cup {NULL}
  /\ isLoading \in BOOLEAN
  /\ initPc \in {"start", "me", "refreshAuth", "done"}
  /\ refreshOp.pc \in {"idle", "refresh", "me", "resolved", "rejected"}
  /\ \A k \in 1..MaxSignIns : signInOps[k].pc \in {"idle", "signin", "me", "done"}
  /\ \A k \in 1..MaxSignUps : signUpOps[k].pc \in {"idle", "signup", "done"}
  /\ signUps \in 0..MaxSignUps
  /\ signIns \in 0..MaxSignIns
  /\ Len(timers) <= MaxSignUps
  /\ loginForm.isLoading \in BOOLEAN
  /\ signUpForm.isLoading \in BOOLEAN
  /\ probes \in 0..(MaxSignIns + 1)
  /\ \A k \in 1..MaxConfirms : confirmOps[k].pc \in {"idle", "confirm"}
  /\ confirmTimers \in 0..MaxConfirms
  /\ confirmForm.isLoading \in BOOLEAN
  /\ onboardOp.pc \in {"idle", "create", "complete"}
  /\ onboardForm.isLoading \in BOOLEAN
  /\ flow.signUpEmail \in Emails \cup {""}
  /\ screen = CurScreen

\* A form's isLoading flag is set exactly while a call it started is in
\* flight, so its setters always reach the form instance that made the call.
FormsTrackCalls ==
  /\ loginForm.isLoading <=>
       \E k \in 1..MaxSignIns : signInOps[k].attached /\ signInOps[k].pc \in {"signin", "me"}
  /\ signUpForm.isLoading <=>
       \E k \in 1..MaxSignUps : signUpOps[k].attached /\ signUpOps[k].pc = "signup"
  /\ confirmForm.isLoading <=>
       \E k \in 1..MaxConfirms : confirmOps[k].attached /\ confirmOps[k].pc = "confirm"
  /\ onboardForm.isLoading <=> (onboardOp.attached /\ onboardOp.pc # "idle")

\* ------------------------------------------------------------------ C1
\* C1: signOut called in any reachable state leaves Current User null and
\* removes both the access token and the refresh token from the Session
\* Store, and calling it a second time changes nothing; the sign-out button
\* (handleSignOut) ends in exactly that state.
C1_SignOutClears ==
  LET out == signOut([ls |-> localStorage, user |-> user]) IN
    /\ out.user = NULL
    /\ \A key \in Keys : out.ls[key] = NULL
    /\ signOut(out) = out
    /\ last.act = "handleSignOut" =>
         /\ ~isAuthenticated(user)
         /\ \A key \in Keys : localStorage[key] = NULL

\* A sign-out of a session that held both tokens has happened.
C1_Witness ==
  /\ last.act = "handleSignOut"
  /\ signIns > 0
  /\ user = NULL
  /\ localStorage = NoStore

\* ------------------------------------------------------------------ C2
\* C2: when the token exchange of a signIn succeeds, both tokens are in the
\* Session Store when its who-am-I request is issued (the request carries the
\* new access token) and Current User is not set by that step; Current User
\* is set by a signIn only in the step that handles a successful who-am-I,
\* which is a step of a call whose who-am-I request had been issued.
C2_Saved ==
  /\ \A k \in 1..MaxSignIns :
       signInOps[k].pc = "me" => signInOps[k].resp \in AuthResponses
  /\ (last.act = "SignInResp" /\ last.err = NoMessage) =>
       /\ signInOps[last.op].pc = "me"
       /\ last.atMe = AsStore(signInOps[last.op].resp)
       /\ last.reqs = <<[ep |-> "/auth/me",
                         bearer |-> signInOps[last.op].resp.access_token]>>
       /\ localStorage = AsStore(signInOps[last.op].resp)
  /\ (last.act = "SignInMe" /\ last.err = NoMessage) =>
       (last.me \in Users /\ user = last.me)

C2_Order ==
  /\ last'.act = "SignInMe" => signInOps[last'.op].pc = "me"
  /\ ( \/ last'.act \in {"LoginSubmit", "SignInResp"}
       \/ (last'.act = "SignInMe" /\ last'.err # NoMessage) ) => user' = user

C2_SaveBeforeWhoAmI == []C2_Saved /\ [][C2_Order]_vars

\* A signIn has run to the end: tokens stored, Current User set.
C2_Witness ==
  /\ last.act = "SignInMe"
  /\ last.err = NoMessage
  /\ user \in Users
  /\ localStorage["access_token"] \in {"accA", "accB"}

\* ------------------------------------------------------------------ C3
\* C3: when the who-am-I of a signIn fails after a successful token exchange,
\* signIn rejects with that error (the form that made the call shows its
\* message and is no longer loading), and the step changes neither the
\* Session Store nor Current User; for a sign-in with no other sign-in
\* beside it the store holds the pair it saved and Current User is unset.
C3_Held ==
  (signIns = 1 /\ signInOps[1].pc = "me") =>
     (localStorage = AsStore(signInOps[1].resp) /\ user = NULL)

C3_Frame ==
  (last'.act = "SignInMe" /\ last'.err # NoMessage) =>
     /\ localStorage' = localStorage
     /\ user' = user
     /\ signInOps'[last'.op].pc = "done"
     /\ signInOps[last'.op].attached =>
          (loginForm'.error = last'.err /\ ~loginForm'.isLoading)

C3_WhoAmIFailureKeepsTokens == []C3_Held /\ [][C3_Frame]_vars

\* The who-am-I of the only sign-in failed: tokens kept, no user, error shown.
C3_Witness ==
  /\ last.act = "SignInMe"
  /\ last.err # NoMessage
  /\ signIns = 1
  /\ localStorage["access_token"] \in {"accA", "accB"}
  /\ localStorage["refresh_token"] \in {"refA", "refB"}
  /\ user = NULL
  /\ loginForm.error = last.err

\* ------------------------------------------------------------------ C4
\* C4: in every reachable state, if Current User is populated then the
\* Session Store holds an access token.
C4_UserImpliesToken ==
  isAuthenticated(user) => localStorage["access_token"] # NULL

\* ------------------------------------------------------------------ C5
\* C5: refreshAuth called while the Session Store holds no refresh token
\* rejects to its caller.
C5_Rejects ==
  ( /\ last'.act = "InitializeAuthMe"
    /\ refreshOp'.calls = refreshOp.calls + 1
    /\ localStorage["refresh_token"] = NULL ) => refreshOp'.pc = "rejected"

C5_NoRefreshTokenRejects == [][C5_Rejects]_vars

\* ------------------------------------------------------------------ C6
\* C6: refreshAuth called while the Session Store holds no refresh token
\* issues no backend request: the step sends nothing, the refresh request
\* count stays 0, and refreshAuth is over, so no who-am-I follows.
C6_Silent ==
  ( /\ last'.act = "InitializeAuthMe"
    /\ last'.err # NoMessage
    /\ localStorage["refresh_token"] = NULL ) =>
      /\ last'.reqs = <<>>
      /\ refreshOp'.calls = 1
      /\ refreshOp'.sent = 0
      /\ refreshOp'.pc \notin {"refresh", "me"}
      /\ initPc' = "done"

C6_NoRefreshTokenNoRequest == [][C6_Silent]_vars

\* refreshAuth has been called with an access token but no refresh token.
C6_Witness ==
  /\ last.act = "InitializeAuthMe"
  /\ last.err # NoMessage
  /\ refreshOp.calls = 1
  /\ refreshOp.sent = 0
  /\ last.reqs = <<>>

\* ------------------------------------------------------------------ C7
\* C7: when the backend rejects the refresh request, refreshAuth leaves the
\* state signOut leaves (both tokens removed, Current User null), and the
\* refresh request is never issued again.
C7_Cleared ==
  /\ refreshOp.sent <= 1
  /\ (last.act = "RefreshAuthResp" /\ last.err # NoMessage) =>
       /\ \A key \in Keys : localStorage[key] = NULL
       /\ user = NULL
       /\ last.reqs = <<>>
       /\ refreshOp.pc \in {"resolved", "rejected"}

C7_Terminal ==
  /\ (last'.act = "RefreshAuthResp" /\ last'.err # NoMessage) =>
       [ls |-> localStorage', user |-> user'] =
         signOut([ls |-> localStorage, user |-> user])
  /\ refreshOp.pc \in {"resolved", "rejected"} =>
       /\ refreshOp'.sent = refreshOp.sent
       /\ \A i \in 1..Len(last'.reqs) : last'.reqs[i].ep # "/auth/refresh"

C7_RefreshFailureSignsOut == []C7_Cleared /\ [][C7_Terminal]_vars

\* The backend has rejected the refresh request.
C7_Witness ==
  /\ last.act = "RefreshAuthResp"
  /\ last.err # NoMessage
  /\ refreshOp.sent = 1
  /\ localStorage = NoStore

\* ------------------------------------------------------------------ C8
\* C8: when the refresh request and the who-am-I after it both succeed, the
\* Session Store holds the two tokens of the refresh response in place of the
\* old ones and Current User is the who-am-I result (Authenticated).
C8_RefreshSuccess ==
  /\ (last.act = "RefreshAuthResp" /\ last.err = NoMessage) =>
       /\ refreshOp.resp \in AuthResponses
       /\ localStorage = AsStore(refreshOp.resp)
  /\ (last.act = "RefreshAuthMe" /\ last.err = NoMessage) =>
       /\ last.atMe \in {AsStore(authResponse) : authResponse \in AuthResponses}
       /\ localStorage["access_token"] = last.atMe["access_token"]
       /\ localStorage["refresh_token"] = last.atMe["refresh_token"]
       /\ localStorage["access_token"] # "acc0"
       /\ localStorage["refresh_token"] # "ref0"
       /\ last.me \in Users
       /\ user = last.me
       /\ isAuthenticated(user)

\* A refresh has run to the end: new tokens stored, Current User set.
C8_Witness ==
  /\ last.act = "RefreshAuthMe"
  /\ last.err = NoMessage
  /\ user \in Users
  /\ localStorage["refresh_token"] \in {"refA", "refB"}

\* ------------------------------------------------------------------ C9
\* C9: started with an access token, initializeAuth issues who-am-I; when it
\* succeeds Current User is set and refreshAuth is not called; when it fails
\* refreshAuth is called, once in the whole run; and when that refreshAuth
\* fails the store is empty, Current User is null and loading has ended.
C9_Outcomes ==
  /\ refreshOp.calls <= 1
  /\ (last.act = "InitializeAuth" /\ initPc = "me") =>
       /\ localStorage["access_token"] # NULL
       /\ last.reqs = <<[ep |-> "/auth/me", bearer |-> localStorage["access_token"]]>>
  /\ (last.act = "InitializeAuthMe" /\ last.err = NoMessage) =>
       /\ last.me \in Users
       /\ user = last.me
       /\ refreshOp = IdleRefresh
       /\ \A i \in 1..Len(last.reqs) : last.reqs[i].ep # "/auth/refresh"
       /\ initPc = "done"
       /\ ~isLoading
  /\ (last.act = "InitializeAuthMe" /\ last.err # NoMessage) => refreshOp.calls = 1
  /\ ( /\ last.act \in {"InitializeAuthMe", "RefreshAuthResp", "RefreshAuthMe"}
       /\ last.err # NoMessage
       /\ initPc = "done" ) =>
         /\ localStorage = NoStore
         /\ ~isAuthenticated(user)
         /\ ~isLoading

C9_Steps ==
  /\ (initPc = "start" /\ localStorage["access_token"] # NULL) => initPc' = "me"
  /\ refreshOp'.calls # refreshOp.calls =>
       (last'.act = "InitializeAuthMe" /\ last'.err # NoMessage)

C9_InitializeWithToken == []C9_Outcomes /\ [][C9_Steps]_vars

\* initializeAuth went through who-am-I, refreshAuth and a failed refresh.
C9_Witness ==
  /\ last.act = "RefreshAuthResp"
  /\ last.err # NoMessage
  /\ refreshOp.calls = 1
  /\ initPc = "done"
  /\ user = NULL

\* ----------------------------------------------------------------- C10
\* C10: started without an access token, initializeAuth sends nothing, leaves
\* the Session Store as it is (a stored refresh token included), ends with
\* Current User null and loading finished, and refreshAuth is never called.
C10_Step ==
  /\ (initPc = "start" /\ localStorage["access_token"] = NULL) =>
       /\ localStorage' = localStorage
       /\ last'.reqs = <<>>
       /\ user' = NULL
       /\ ~isLoading'
       /\ initPc' = "done"
       /\ refreshOp' = IdleRefresh
  /\ initPc = "done" => (initPc' = "done" /\ refreshOp'.calls = refreshOp.calls)

C10_InitializeWithoutToken == [][C10_Step]_vars

\* initializeAuth has ended at once although a refresh token is stored.
C10_Witness ==
  /\ last.act = "InitializeAuth"
  /\ initPc = "done"
  /\ localStorage["access_token"] = NULL
  /\ localStorage["refresh_token"] = "ref0"
  /\ user = NULL
  /\ ~isLoading

\* ------------------------------------------------------------------ C11
Endpoints(reqs) == {reqs[i].ep : i \in 1..Len(reqs)}

\* C11: the refresh endpoint is requested only by the step in which the
\* who-am-I of initializeAuth failed (its catch calls refreshAuth), and at
\* most once in the life of the process; every other step that ends in a
\* failure (signIn, signUp, confirmSignUp, the profile probe, either call of
\* the onboarding submit, refreshAuth itself) issues no request at all.
C11_RefreshOnlyFromInitialize ==
  /\ refreshOp.sent <= 1
  /\ refreshOp.calls <= 1
  /\ "/auth/refresh" \in Endpoints(last.reqs) =>
       (last.act = "InitializeAuthMe" /\ last.err # NoMessage)
  /\ (last.err # NoMessage /\ last.act # "InitializeAuthMe") => last.reqs = <<>>

\* A profile probe has just failed in a run whose initializeAuth had used its
\* one refresh: the probe is not repeated and no refresh follows.
C11_Witness ==
  /\ last.act = "checkProfile"
  /\ last.err # NoMessage
  /\ refreshOp.sent = 1
  /\ probes = 0

\* ------------------------------------------------------------------ C12
\* C12: for every combination of authLoading, isAuthenticated, hasProfile,
\* showSignUp, showConfirmEmail and showOnboarding the render returns exactly
\* one of the seven screens, and whenever authLoading is true that screen is
\* Loading whatever the other flags are (and Loading is returned in no other
\* case).
C12_TotalAndLoadingFirst ==
  screen # NotRendered =>
    /\ screen \in Screens
    /\ isLoading => screen = "Loading"
    /\ screen = "Loading" => isLoading

\* Loading was rendered for an authenticated user although the confirmation
\* and onboarding flags were set.
C12_Witness ==
  /\ screen = "Loading"
  /\ isAuthenticated(user)
  /\ flow.showConfirmEmail
  /\ flow.showOnboarding
  /\ flow.hasProfile

\* ------------------------------------------------------------------ C13
\* C13: with authLoading false each screen is rendered exactly under its
\* priority rule: unauthenticated gives ConfirmEmail if showConfirmEmail, else
\* SignUp if showSignUp, else SignIn; authenticated gives WelcomeGate if
\* neither hasProfile nor showOnboarding, else Onboarding if showOnboarding,
\* else Main.  So Onboarding is never rendered for an unauthenticated user and
\* Main only when hasProfile is true.
C13_PriorityRules ==
  (screen # NotRendered /\ ~isLoading) =>
    LET auth == isAuthenticated(user) IN
      /\ screen = "ConfirmEmail" <=> (~auth /\ flow.showConfirmEmail)
      /\ screen = "SignUp" <=> (~auth /\ ~flow.showConfirmEmail /\ flow.showSignUp)
      /\ screen = "SignIn" <=> (~auth /\ ~flow.showConfirmEmail /\ ~flow.showSignUp)
      /\ screen = "WelcomeGate" <=> (auth /\ ~flow.hasProfile /\ ~flow.showOnboarding)
      /\ screen = "Onboarding" <=> (auth /\ flow.showOnboarding)
      /\ screen = "Main" <=> (auth /\ flow.hasProfile /\ ~flow.showOnboarding)
      /\ screen = "Onboarding" => auth
      /\ screen = "Main" => flow.hasProfile

\* An unauthenticated render with showOnboarding and hasProfile set returned
\* the SignIn screen.
C13_Witness ==
  /\ screen = "SignIn"
  /\ ~isLoading
  /\ ~isAuthenticated(user)
  /\ flow.showOnboarding
  /\ flow.hasProfile

\* ------------------------------------------------------------------ C14
\* C14: in every reachable state of the flow showConfirmEmail and showSignUp
\* are not both true.
C14_ConfirmExcludesSignUp == ~(flow.showConfirmEmail /\ flow.showSignUp)

\* Back to sign up was clicked on the ConfirmEmail screen: the flow went from
\* the one flag to the other.
C14_Witness ==
  /\ last.act = "handleBackToSignUp"
  /\ flow.showSignUp
  /\ ~flow.showConfirmEmail
  /\ screen = "SignUp"

C15_Step ==
  /\ (last'.act = "SignUpSubmit" /\ last'.reqs # <<>>) =>
       signUpOps'[last'.op].email \in Emails
  /\ (last'.act = "SignUpResp" /\ last'.err = NoMessage) =>
       timers' = Append(timers, signUpOps[last'.op].email)
  /\ last'.act = "handleSignUpSuccess" =>
       /\ timers # <<>>
       /\ flow' = [flow EXCEPT !.showSignUp = FALSE, !.showConfirmEmail = TRUE,
                               !.signUpEmail = Head(timers)]
       /\ ~isAuthenticated(user') =>
            (screen' = "ConfirmEmail" /\ flow'.signUpEmail = Head(timers))

C16_Step ==
  /\ last'.act \in {"SignUpSubmit", "SignUpResp"} =>
       (user' = user /\ localStorage' = localStorage)
  /\ (last'.act = "SignUpResp" /\ last'.err # NoMessage) =>
       /\ last'.err \in {ApiCall(r).message : r \in Failures}
       /\ flow' = flow
       /\ timers' = timers
       /\ screen' = screen
       /\ signUpOps[last'.op].attached =>
            /\ screen' = "SignUp"
            /\ signUpForm'.error = last'.err
            /\ ~signUpForm'.success
            /\ ~signUpForm'.isLoading

C16_SignUpKeepsSession == [][C16_Step]_vars

\* The backend has refused a sign-up with a detail message: the SignUp screen
\* shows it, nobody is signed in and no confirmation is pending.
C16_Witness ==
  /\ last.act = "SignUpResp"
  /\ last.err.text = Http401.detail
  /\ screen = "SignUp"
  /\ signUpForm.error = last.err
  /\ user = NULL
  /\ localStorage = NoStore
  /\ ~flow.showConfirmEmail
  /\ flow.signUpEmail = ""
  /\ timers = <<>>

\* ------------------------------------------------------------------ C17
\* C17: a successful confirmSignUp arms the timer of ConfirmEmailForm and,
\* when it fires, handleEmailConfirmed sets showConfirmEmail to false and
\* clears signUpEmail, touching no other flag; no step of the confirmation
\* changes Current User or the Session Store, and once initializeAuth is over
\* an unauthenticated user becomes authenticated only by the successful
\* who-am-I of a signIn.
C17_Step ==
  /\ last'.act \in {"ConfirmSubmit", "ConfirmResp", "handleEmailConfirmed"} =>
       (user' = user /\ localStorage' = localStorage)
  /\ (last'.act = "ConfirmResp" /\ last'.err = NoMessage) =>
       (confirmTimers' = confirmTimers + 1 /\ flow' = flow)
  /\ last'.act = "handleEmailConfirmed" =>
       /\ confirmTimers > 0
       /\ flow' = [flow EXCEPT !.showConfirmEmail = FALSE, !.signUpEmail = ""]
  /\ (initPc = "done" /\ ~isAuthenticated(user) /\ isAuthenticated(user')) =>
       (last'.act = "SignInMe" /\ last'.err = NoMessage)

C17_ConfirmDoesNotSignIn == [][C17_Step]_vars

\* The confirmation went through and its timer has fired: the SignIn screen is
\* displayed, nobody is signed in and no email is pending.
C17_Witness ==
  /\ last.act = "handleEmailConfirmed"
  /\ user = NULL
  /\ localStorage = NoStore
  /\ screen = "SignIn"
  /\ ~flow.showConfirmEmail
  /\ flow.signUpEmail = ""

\* ------------------------------------------------------------------ C18
\* C18: when the confirm-signup request fails, the message handleResponse
\* built from the backend's answer becomes the error of the form that made
\* the call, no timer is armed and the flow is left as it was (showConfirmEmail
\* and signUpEmail keep their values), so a displayed ConfirmEmail screen stays
\* displayed.
C18_Step ==
  (last'.act = "ConfirmResp" /\ last'.err # NoMessage) =>
     /\ last'.err \in {ApiCall(r).message : r \in Failures}
     /\ flow' = flow
     /\ confirmTimers' = confirmTimers
     /\ screen' = screen
     /\ confirmOps[last'.op].attached =>
          /\ screen' = "ConfirmEmail"
          /\ flow'.showConfirmEmail
          /\ confirmForm'.error = last'.err
          /\ ~confirmForm'.success
          /\ ~confirmForm'.isLoading

C18_ConfirmFailureStays == [][C18_Step]_vars

\* The backend has refused a confirmation code with a detail message: the
\* ConfirmEmail screen shows it and the pending email is still there.
C18_Witness ==
  /\ last.act = "ConfirmResp"
  /\ last.err.text = Http401.detail
  /\ screen = "ConfirmEmail"
  /\ confirmForm.error = last.err
  /\ flow.showConfirmEmail
  /\ flow.signUpEmail = "a@b.com"
  /\ confirmTimers = 0

\* ------------------------------------------------------------------ C19
\* C19: the onboarding request (POST /users/onboarding) is issued only by the
\* step in which the auto-create request of the same submission succeeded;
\* when either request fails the form that made the call shows the error and
\* stops loading, nothing further is requested, the submission is over and
\* the flow (hasProfile and showOnboarding with it) is left as it was, that
\* is onComplete was not called.
C19_Step ==
  /\ "/users/onboarding" \in Endpoints(last'.reqs) =>
       /\ last'.act = "AutoCreateResp"
       /\ last'.err = NoMessage
       /\ onboardOp.pc = "create"
  /\ "/users/profile/auto-create" \in Endpoints(last'.reqs) =>
       last'.act = "OnboardingSubmit"
  /\ (last'.act \in {"AutoCreateResp", "CompleteOnboardingResp"}
        /\ last'.err # NoMessage) =>
       /\ last'.reqs = <<>>
       /\ flow' = flow
       /\ onboardOp'.pc = "idle"
       /\ onboardOp.attached =>
            (onboardForm'.error = last'.err /\ ~onboardForm'.isLoading)

C19_OnboardingSequential == [][C19_Step]_vars

\* Auto-create has failed: the Onboarding screen shows the error, the second
\* request was not sent and the user still has no profile.
C19_Witness ==
  /\ last.act = "AutoCreateResp"
  /\ last.err # NoMessage
  /\ last.reqs = <<>>
  /\ screen = "Onboarding"
  /\ onboardForm.error = last.err
  /\ onboardOp.pc = "idle"
  /\ flow.showOnboarding
  /\ ~flow.hasProfile

\* ------------------------------------------------------------------ C20
\* C20: when the onboarding request succeeds (the auto-create request before
\* it had succeeded), handleOnboardingComplete has run: showOnboarding is
\* false and hasProfile is true, the user is authenticated and the displayed
\* screen is Main.
C20_OnboardingCompletes ==
  (last.act = "CompleteOnboardingResp" /\ last.err = NoMessage) =>
     /\ ~flow.showOnboarding
     /\ flow.hasProfile
     /\ isAuthenticated(user)
     /\ screen = "Main"
     /\ onboardOp.pc = "idle"

\* Both requests of an onboarding submission have succeeded and no profile
\* probe is outstanding: Main is displayed.
C20_Witness ==
  /\ last.act = "CompleteOnboardingResp"
  /\ last.err = NoMessage
  /\ user = "bob"
  /\ screen = "Main"
  /\ flow.hasProfile
  /\ ~flow.showOnboarding
  /\ probes = 0

\* ------------------------------------------------------------------ C21
\* C21: right after the sign-out button was used, every flow flag has its
\* initial value (showSignUp, showConfirmEmail and showOnboarding false, no
\* pending sign-up email) and the SignIn screen is displayed.
C21_SignOutResetsFlow ==
  last.act = "handleSignOut" =>
     /\ ~flow.showSignUp
     /\ ~flow.showConfirmEmail
     /\ ~flow.showOnboarding
     /\ flow.signUpEmail = ""
     /\ screen = "SignIn"

\* ------------------------------------------------------------------ C22
\* C22: every step in which Current User goes from unset to set issues one
\* profile fetch (GET /users/profile); a profile fetch is issued only by a
\* step that ends with Current User set; when a fetch settles, hasProfile
\* becomes true if it succeeded and false if it failed, whatever the failure,
\* and no other flag changes.
C22_Step ==
  /\ (~isAuthenticated(user) /\ isAuthenticated(user')) =>
       /\ "/users/profile" \in Endpoints(last'.reqs)
       /\ probes' = probes + 1
  /\ "/users/profile" \in Endpoints(last'.reqs) =>
       /\ isAuthenticated(user')
       /\ probes' = probes + 1
  /\ last'.act = "checkProfile" =>
       /\ probes > 0
       /\ probes' = probes - 1
       /\ flow' = [flow EXCEPT !.hasProfile = (last'.err = NoMessage)]

C22_ProfileProbe == [][C22_Step]_vars

\* The probe issued when the user became authenticated has failed: hasProfile
\* is false and the WelcomeGate is displayed.
C22_Witness ==
  /\ last.act = "checkProfile"
  /\ last.err # NoMessage
  /\ isAuthenticated(user)
  /\ ~flow.hasProfile
  /\ probes = 0
  /\ screen = "WelcomeGate"

\* ------------------------------------------------------------------ C23
\* C23: a request never carries an access token other than the one the
\* Session Store holds when the step that issued it ends; in particular every
\* request issued while the store holds no access token, as it does from a
\* signOut to the next token save, carries no bearer credential.
C23_NoTokenAfterSignOut ==
  \A i \in 1..Len(last.reqs) :
    /\ last.reqs[i].bearer \in {NULL, localStorage["access_token"]}
    /\ localStorage["access_token"] = NULL => last.reqs[i].bearer = NULL

\* A sign-in that was in flight across a sign-out has completed: its profile
\* fetch went out after the store was cleared and carries no bearer.
C23_Witness ==
  /\ last.act = "SignInMe"
  /\ last.reqs # <<>>
  /\ last.reqs[1].ep = "/users/profile"
  /\ last.reqs[1].bearer = NULL
  /\ localStorage = NoStore
  /\ isAuthenticated(user)

\* ------------------------------------------------------------------ C24
\* C24: the Session Store changes only in a step of the Auth Controller: it
\* receives a Credential Pair only when a signin or a refresh response was
\* successful, and it is emptied only by signOut (the sign-out button) or by
\* a refreshAuth that failed; the steps of the API Client, of AppContent and
\* of the forms leave it as it was.
C24_Step ==
  localStorage' # localStorage =>
    \/ /\ last'.act \in {"SignInResp", "RefreshAuthResp"}
       /\ last'.err = NoMessage
       /\ \E authResponse \in AuthResponses : localStorage' = AsStore(authResponse)
    \/ /\ \/ last'.act = "handleSignOut"
          \/ /\ last'.act \in {"InitializeAuthMe", "RefreshAuthResp", "RefreshAuthMe"}
             /\ last'.err # NoMessage
             /\ refreshOp'.pc = "resolved"
       /\ localStorage' = NoStore

C24_SingleWriter == [][C24_Step]_vars

\* The who-am-I after a successful refresh has failed: refreshAuth has emptied
\* the store it had just written.
C24_Witness ==
  /\ last.act = "RefreshAuthMe"
  /\ last.err # NoMessage
  /\ refreshOp.sent = 1
  /\ localStorage = NoStore
  /\ user = NULL

\* ------------------------------------------------------------------ C25
\* C25: every request to an authenticated endpoint (who-am-I, profile,
\* preferences, auto-create, onboarding) carries as bearer the access token
\* the Session Store holds when the call is made, and is sent without a
\* bearer when the store holds none; a request to signup, confirm-signup,
\* signin or refresh never carries a bearer.  (In every step that issues a
\* request the store at the time of the call is the store the step ends with:
\* a step that saves tokens does so before it builds the request.)
C25_BearerFromStore ==
  \A i \in 1..Len(last.reqs) :
    LET req == last.reqs[i] IN
      /\ req.ep \in AuthedEndpoints \cup PlainEndpoints
      /\ req.ep \in AuthedEndpoints => req.bearer = localStorage["access_token"]
      /\ req.ep \in PlainEndpoints => req.bearer = NULL

\* An onboarding submission went out while the store held no access token:
\* the auto-create request was sent, without a bearer.
C25_Witness ==
  /\ last.act = "OnboardingSubmit"
  /\ last.reqs = <<[ep |-> "/users/profile/auto-create", bearer |-> NULL]>>
  /\ localStorage["access_token"] = NULL
  /\ onboardOp.pc = "create"

C27_LoadingEnds ==
  /\ (isLoading = TRUE /\ user = NULL)
  /\ <>(isLoading = FALSE)
  /\ [][~isLoading => ~isLoading']_vars

\* initializeAuth has ended through a refresh that failed: loading is over
\* and the SignIn screen is displayed.
C27_Witness ==
  /\ ~isLoading
  /\ initPc = "done"
  /\ last.act = "RefreshAuthResp"
  /\ last.err # NoMessage
  /\ user = NULL
  /\ screen = "SignIn"

C28_Step ==
  /\ (last'.act = "checkProfile" /\ last'.err = NoMessage /\ isAuthenticated(user)) =>
       /\ screen \notin {"WelcomeGate", "Onboarding"}
       /\ screen' = "Main"
  /\ screen' = "WelcomeGate" =>
       (isAuthenticated(user') /\ ~flow'.hasProfile /\ ~flow'.showOnboarding)

C29_Step ==
  /\ (flow'.showOnboarding /\ ~flow.showOnboarding) =>
       /\ last'.act = "StartSetup"
       /\ screen = "WelcomeGate"
       /\ isAuthenticated(user)
       /\ ~flow.hasProfile
  /\ (screen' = "Onboarding" /\ screen # "Onboarding") => screen = "WelcomeGate"

C29_OnboardingFromWelcomeGate == [][C29_Step]_vars

\* Start Setup was just pressed on WelcomeGate: Onboarding is displayed.
C29_Witness ==
  /\ last.act = "StartSetup"
  /\ flow.showOnboarding
  /\ ~flow.hasProfile
  /\ isAuthenticated(user)
  /\ screen = "Onboarding"

\* ------------------------------------------------------------------ C30
\* C30: for sign-in, sign-up, confirm and onboarding submit, the form's
\* isLoading flag is true while a call the form started is in flight; in the
\* step in which the operation settles (with success or with any failure) the
\* flag of the form is false again, and when it settles with a failure the
\* form's error holds the failure's message, which is not empty.
C30_InFlight ==
  /\ \A k \in 1..MaxSignIns :
       (signInOps[k].attached /\ signInOps[k].pc \in {"signin", "me"})
         => (screen = "SignIn" /\ loginForm.isLoading)
  /\ \A k \in 1..MaxSignUps :
       (signUpOps[k].attached /\ signUpOps[k].pc = "signup")
         => (screen = "SignUp" /\ signUpForm.isLoading)
  /\ \A k \in 1..MaxConfirms :
       (confirmOps[k].attached /\ confirmOps[k].pc = "confirm")
         => (screen = "ConfirmEmail" /\ confirmForm.isLoading)
  /\ (onboardOp.attached /\ onboardOp.pc \in {"create", "complete"})
       => (screen = "Onboarding" /\ onboardForm.isLoading)

C30_Settled(wasInFlight, isInFlight, form) ==
  (wasInFlight /\ ~isInFlight) =>
    /\ ~form.isLoading
    /\ last'.err # NoMessage => (form.error = last'.err /\ form.error # NoMessage)

C30_Step ==
  /\ \A k \in 1..MaxSignIns :
       C30_Settled(signInOps[k].attached /\ signInOps[k].pc \in {"signin", "me"},
                   signInOps'[k].pc \in {"signin", "me"}, loginForm')
  /\ \A k \in 1..MaxSignUps :
       C30_Settled(signUpOps[k].attached /\ signUpOps[k].pc = "signup",
                   signUpOps'[k].pc = "signup", signUpForm')
  /\ \A k \in 1..MaxConfirms :
       C30_Settled(confirmOps[k].attached /\ confirmOps[k].pc = "confirm",
                   confirmOps'[k].pc = "confirm", confirmForm')
  /\ C30_Settled(onboardOp.attached /\ onboardOp.pc \in {"create", "complete"},
                 onboardOp'.pc \in {"create", "complete"}, onboardForm')

C30_FormLoading == []C30_InFlight /\ [][C30_Step]_vars

\* An onboarding submit has just failed at its second call: the form is
\* still displayed, enabled again, and shows the failure's message.
C30_Witness ==
  /\ last.act = "CompleteOnboardingResp"
  /\ last.err # NoMessage
  /\ screen = "Onboarding"
  /\ ~onboardForm.isLoading
  /\ onboardForm.error = last.err

\* ------------------------------------------------------------------ C31
\* C31: once an onboarding submission has succeeded, hasProfile stays true
\* and Main stays the displayed screen until the user signs out: the step
\* that follows the successful submission, unless it is the sign-out, leaves
\* hasProfile true and Main displayed, also when it is the (failed) answer to
\* a profile fetch that was issued before the submission.
C31_Step ==
  (/\ last.act = "CompleteOnboardingResp"
   /\ last.err = NoMessage
   /\ last'.act # "handleSignOut")
    => (flow'.hasProfile /\ screen' = "Main")

C31_ProfileStaysAfterOnboarding ==
  /\ [](last.act = "CompleteOnboardingResp" /\ last.err = NoMessage
          => flow.hasProfile /\ screen = "Main")
  /\ [][C31_Step]_vars

\* ------------------------------------------------------------------ C32
\* C32: after sign-out hasProfile is false and stays false until the next
\* authenticated session: in every state without a Current User hasProfile
\* is false, also after the answer to a profile fetch of the previous
\* session has arrived, so that the next user to sign in starts on
\* WelcomeGate and not on Main.
C32_NoProfileWhileSignedOut ==
  /\ user = NULL => ~flow.hasProfile
  /\ (last.act = "SignInMe" /\ last.err = NoMessage /\ isAuthenticated(user))
       => screen # "Main"

\* ------------------------------------------------------------------ C33
\* C33: the delayed transitions take effect only while the form that
\* scheduled them is still displayed: the callback of the sign-up timer
\* changes the flow only when the SignUp screen is displayed, the callback of
\* the confirmation timer only when the ConfirmEmail screen is displayed;
\* on any other screen a callback leaves the flow, signUpEmail included, and
\* the displayed screen as they are.
C33_Step ==
  /\ (last'.act = "handleSignUpSuccess" /\ screen # "SignUp")
       => (flow' = flow /\ screen' = screen)
  /\ (last'.act = "handleEmailConfirmed" /\ screen # "ConfirmEmail")
       => (flow' = flow /\ screen' = screen)

C33_TimersOnlyOnTheirForm == [][C33_Step]_vars

\* ------------------------------------------------------------------ C34
\* C34: while isLoading is true only the Loading screen is displayed, and
\* until initializeAuth has finished no step other than its own has been
\* taken: no signIn, signUp, confirmSignUp, onboarding submit or sign-out has
\* been started, none of their calls is in flight, and no timer is armed.
C34_InitializeSteps ==
  {"Init", "InitializeAuth", "InitializeAuthMe", "RefreshAuthResp", "RefreshAuthMe"}

C34_InitializeAlone ==
  /\ isLoading => screen = "Loading"
  /\ isLoading <=> initPc # "done"
  /\ initPc # "done" =>
       /\ last.act \in C34_InitializeSteps
       /\ signIns = 0
       /\ signUps = 0
       /\ \A k \in 1..MaxSignIns : signInOps[k].pc = "idle"
       /\ \A k \in 1..MaxSignUps : signUpOps[k].pc = "idle"
       /\ \A k \in 1..MaxConfirms : confirmOps[k].pc = "idle"
       /\ onboardOp.pc = "idle"
       /\ timers = <<>>
       /\ confirmTimers = 0
       /\ probes = 0
       /\ flow = InitialFlow

\* initializeAuth is waiting for the who-am-I that follows a refresh.
C34_Witness ==
  /\ initPc = "refreshAuth"
  /\ refreshOp.pc = "me"
  /\ isLoading
  /\ screen = "Loading"

\* ------------------------------------------------------------------ C35
\* C35: when the refresh request succeeded and the who-am-I that follows it
\* fails, refreshAuth ends with the Session Store empty (the tokens it had
\* just saved are removed), Current User null, and resolved; a signIn whose
\* who-am-I fails leaves the Session Store and Current User as they were.
\* refreshAuth never ends rejected, so the signOut of initializeAuth's inner
\* catch is never the step that clears the store.
C35_RefreshEnd ==
  /\ (last.act = "RefreshAuthMe" /\ last.err # NoMessage) =>
       /\ \A key \in Keys : localStorage[key] = NULL
       /\ user = NULL
       /\ refreshOp.pc = "resolved"
  /\ refreshOp.pc # "rejected"

C35_Step ==
  /\ (last'.act = "RefreshAuthMe" /\ last'.err # NoMessage) =>
       localStorage["access_token"] # NULL
  /\ (last'.act = "SignInMe" /\ last'.err # NoMessage) =>
       (localStorage' = localStorage /\ user' = user)

C35_RefreshDiscardsTokens == []C35_RefreshEnd /\ [][C35_Step]_vars

\* refreshAuth has just ended on a failed who-am-I after a successful refresh.
C35_Witness ==
  /\ last.act = "RefreshAuthMe"
  /\ last.err # NoMessage
  /\ refreshOp.pc = "resolved"
  /\ refreshOp.sent = 1
  /\ localStorage["access_token"] = NULL
  /\ localStorage["refresh_token"] = NULL
  /\ user = NULL

\* ------------------------------------------------------------------ C36
\* C36: when the signin request is rejected, signIn rejects with that error
\* (the form that is waiting for it shows the error's message), issues no
\* who-am-I request, and leaves the Session Store, tokens stored earlier
\* included, and Current User exactly as they were.
C36_Step ==
  \A k \in 1..MaxSignIns :
    (last'.act = "SignInResp" /\ last'.op = k /\ last'.err # NoMessage) =>
      /\ last'.reqs = <<>>
      /\ signInOps'[k].pc = "done"
      /\ localStorage' = localStorage
      /\ user' = user
      /\ signInOps[k].attached =>
           (loginForm'.error = last'.err /\ ~loginForm'.isLoading)

C36_SignInRejected == [][C36_Step]_vars

\* A rejected signin request with tokens of an earlier sign-in in the store.
C36_Witness ==
  /\ last.act = "SignInResp"
  /\ last.err # NoMessage
  /\ last.reqs = <<>>
  /\ localStorage["access_token"] # NULL
  /\ loginForm.error = last.err
  /\ user = NULL

\* ------------------------------------------------------------------ C37
\* C37: the sign-up form calls the backend exactly when password equals
\* confirmPassword and the password has at least 8 characters; otherwise it
\* sets the validation error (the mismatch message whenever the two fields
\* differ, the length message only when they are equal and too short),
\* issues no request, starts no call, does not enter the loading state and
\* leaves the flow and the displayed screen as they are.
C37_Step ==
  last'.act = "SignUpSubmit" =>
    LET password == last'.input.password
        confirmPassword == last'.input.confirmPassword
    IN IF password = confirmPassword /\ Len(password) >= 8
         THEN /\ last'.reqs = <<Plain("/auth/signup")>>
              /\ signUpForm'.isLoading
              /\ signUpForm'.error = NoMessage
              /\ signUps' = signUps + 1
         ELSE /\ last'.reqs = <<>>
              /\ ~signUpForm'.isLoading
              /\ signUpForm'.error.text =
                   (IF password # confirmPassword THEN "Passwords do not match"
                    ELSE "Password must be at least 8 characters long")
              /\ signUps' = signUps
              /\ signUpOps' = signUpOps
              /\ timers' = timers
              /\ flow' = flow
              /\ screen' = screen

C37_SignUpValidation == [][C37_Step]_vars

\* Two different passwords, both too short: the mismatch message is set.
C37_Witness ==
  /\ last.act = "SignUpSubmit"
  /\ last.input.password # last.input.confirmPassword
  /\ Len(last.input.password) < 8
  /\ Len(last.input.confirmPassword) < 8
  /\ signUpForm.error.text = "Passwords do not match"
  /\ ~signUpForm.isLoading
  /\ last.reqs = <<>>
  /\ screen = "SignUp"

\* ------------------------------------------------------------------ C38
\* C38: the location lookup of MapView keeps isLoadingLocation true while it
\* is under way, can always go on until it is over, and once the profile
\* fetch and, where one was asked for, the geolocation callback have settled
\* isLoadingLocation is false and the centre of the map is: the saved
\* profile location when the fetch succeeded and both coordinates are
\* present (neither null nor 0, see C39); else the browser's position when
\* geolocation is supported and succeeds; else the default (40.7128,
\* -74.0060), also when the fetch failed, geolocation is unsupported or
\* geolocation reported an error.
C38_Centre ==
  IF /\ userProfile.ok
     /\ userProfile.location_lat \notin {Null, 0}
     /\ userProfile.location_lng \notin {Null, 0}
    THEN [lat |-> userProfile.location_lat, lng |-> userProfile.location_lng]
  ELSE IF geolocation.supported /\ geolocation.ok THEN geolocation.position
  ELSE [lat |-> 407128, lng |-> -740060]

C38_LocationLookup ==
  /\ mapPc \in {"profile", "geolocation"} =>
       /\ isLoadingLocation
       /\ ENABLED (GetUserLocation \/ GeolocationCallback)
  /\ mapPc = "geolocation" => geolocation.supported
  /\ mapPc = "done" =>
       /\ ~isLoadingLocation
       /\ centre(userLocation) = C38_Centre

\* The profile fetch failed and geolocation reported an error: the lookup
\* is over with the default position.
C38_Witness ==
  /\ mapPc = "done"
  /\ ~userProfile.ok
  /\ geolocation.supported
  /\ ~geolocation.ok
  /\ ~isLoadingLocation
  /\ userLocation = DefaultLocation

\* ------------------------------------------------------------------ C39
\* C39: a coordinate equal to 0 is treated as missing: the onboarding submit
\* sends location_lat / location_lng as undefined when the captured value is
\* 0 (or null) and every other captured value unchanged; MapView does not use
\* a saved location whose latitude or longitude is 0 but what geolocation
\* gives, and uses a saved location with two non-zero coordinates unchanged.
C39_Sent(captured) == IF captured = 0 \/ captured = Null THEN Undefined ELSE captured

C39_ZeroIsMissing ==
  /\ profileData.built =>
       /\ profileData.location_lat = C39_Sent(locationLat)
       /\ profileData.location_lng = C39_Sent(locationLng)
  /\ (/\ mapPc = "done"
      /\ userProfile.ok
      /\ (userProfile.location_lat = 0 \/ userProfile.location_lng = 0)) =>
       userLocation = (IF geolocation.supported /\ geolocation.ok
                         THEN geolocation.position ELSE DefaultLocation)
  /\ (/\ mapPc = "done"
      /\ userProfile.ok
      /\ userProfile.location_lat \notin {Null, 0}
      /\ userProfile.location_lng \notin {Null, 0}) =>
       userLocation = [lat |-> userProfile.location_lat,
                       lng |-> userProfile.location_lng]

\* A captured latitude of 0 was sent as undefined next to an unchanged
\* longitude, and a saved latitude of 0 made MapView use the browser's
\* position.
C39_Witness ==
  /\ profileData.built
  /\ locationLat = 0
  /\ locationLng = -1278
  /\ profileData.location_lat = Undefined
  /\ profileData.location_lng = -1278
  /\ mapPc = "done"
  /\ userProfile.ok
  /\ userProfile.location_lat = 0
  /\ userProfile.location_lng = 515074
  /\ geolocation.ok
  /\ userLocation = geolocation.position

====
